---- MODULE Spec2Model ----
(***************************************************************************)
(* Post lifecycle of the moderation queue: AdminService (admin_service.py) *)
(* over Storage (models.py).  Every AdminService coroutine is a task that   *)
(* runs atomically between its await points (asyncio, one event loop); the  *)
(* awaits are the bot.send_message calls.  Importance scoring               *)
(* (ai_service.py): the criteria adjustment, and the GigaChat client with   *)
(* its token cache, retries and fallback.                                   *)
(***************************************************************************)
EXTENDS Integers, FiniteSets, Sequences, TLC

\* ---------------------------------------------------------------- bounds
\* post ids uuid4 can hand out; coroutines that can be in progress at once
MaxPosts == 2
MaxTasks == 2

\* ------------------------------------------------------- program constants
\* BotConfig.importance_threshold default 0.7, in hundredths
importance_threshold == 70

\* ------------------------------------------------------------ value sets
None == << >>
Some(v) == << v >>

PostIds == 1..MaxPosts
Tasks == 1..MaxTasks
\* user 0 is the system submitter of process_important_message
SystemUser == 0
UserIds == {1}
AdminIds == {1}
ChannelIds == {"channel"}
Texts == {"text_a", "text_b"}
\* what a submitter hands in: a text, with or without a source description
Submissions == { << "text_a", None >>, << "text_b", Some("source") >> }
\* the comment the bot passes: none on approval, a fixed text on rejection
ApproveComments == {None}
RejectComments == {Some("comment")}
\* scores in hundredths: below and at the threshold
Scores == {60, 70}
AutoSource == Some("auto_monitoring")
\* bot.send_message delivers, or raises one of the TelegramError classes
TelegramError == {"BadRequest", "Forbidden", "NetworkError"}
SendOutcomes == {"ok"} \cup TelegramError

PENDING == "pending"
APPROVED == "approved"
REJECTED == "rejected"
PUBLISHED == "published"
PostStatus == {PENDING, APPROVED, REJECTED, PUBLISHED}

VARIABLES
    pending_posts,  \* Storage.pending_posts: post_id -> PendingPost
    users,          \* Storage.users: user_id -> UserPreferences
    bot_config,     \* Storage.bot_config
    tasks,          \* the AdminService coroutines in progress
    clock,          \* datetime.now(), in hours
    scoring,        \* the importance evaluation under way: inputs and results
    token_cache,    \* ai_service.token_cache: the cached token and its expiry
    issued,         \* the tokens the auth endpoint has issued so far
    calls           \* the ai_service calls in progress, one per caller

vars == << pending_posts, users, bot_config, tasks, clock, scoring,
           token_cache, issued, calls >>

\* ------------------------------------------------------------- records
PendingPost(user_id, message_text, source_info, importance_score) ==
    [ user_id |-> user_id,
      message_text |-> message_text,
      source_info |-> source_info,
      importance_score |-> importance_score,
      status |-> PENDING,
      reviewed_at |-> None,
      reviewed_by |-> None,
      admin_comment |-> None ]

UserPreferences ==
    [ can_submit_posts |-> TRUE, keywords |-> << >>, exclude_keywords |-> << >> ]

\* ImportanceCriteria(): the defaults
ImportanceCriteria ==
    [ keywords_boost |-> << >>,
      keywords_reduce |-> << >>,
      sources_boost |-> {},
      sources_reduce |-> {},
      min_message_length |-> 10,
      max_message_length |-> 4000,
      time_sensitivity |-> TRUE ]

\* no importance evaluation under way
NoScoring == [ fn |-> "none" ]

\* ai_service.token_cache at import
EmptyCache == [ token |-> None, expires_at |-> None ]

\* no ai_service call is under way
NoCalls == << >>

IdleTask ==
    [ op |-> "none", pc |-> "idle",
      post_id |-> None, admin_id |-> None, comment |-> None,
      user_id |-> None, text |-> None, source |-> None, score |-> None,
      saw |-> None, retry |-> FALSE,
      publish |-> "none", notify |-> "none", todo |-> {},
      result |-> "none" ]

\* ------------------------------------------------------ Storage (models.py)
StoreWith(posts, post_id, post) ==
    [ x \in (DOMAIN posts) \cup {post_id} |->
        IF x = post_id THEN post ELSE posts[x] ]

\* add_pending_post losing the post
add_pending_post_lost(posts, post_id, post) == posts

add_pending_post(posts, post_id, post) == StoreWith(posts, post_id, post)

\* update_post_status leaving the reviewer out
update_post_status_no_reviewer(posts, post_id, status, admin_id, comment) ==
    IF post_id \in DOMAIN posts
    THEN [ posts EXCEPT ![post_id] =
             [ @ EXCEPT !.status = status,
                        !.reviewed_at = Some("now"),
                        !.admin_comment = comment ] ]
    ELSE posts

update_post_status(posts, post_id, status, admin_id, comment) ==
    IF post_id \in DOMAIN posts
    THEN [ posts EXCEPT ![post_id] =
             [ @ EXCEPT !.status = status,
                        !.reviewed_at = Some("now"),
                        !.reviewed_by = admin_id,
                        !.admin_comment = comment ] ]
    ELSE posts

\* Storage.get_user creates the record of an unknown user
get_user(us, user_id) ==
    IF user_id \in DOMAIN us
    THEN us
    ELSE [ x \in (DOMAIN us) \cup {user_id} |->
             IF x = user_id THEN UserPreferences ELSE us[x] ]

\* a task slot is free before its first call and once its call has returned;
\* a new call takes the first free slot
Returned(t) == tasks[t].pc \in {"idle", "done"}
Free(t) == Returned(t) /\ \A u \in Tasks : u < t => ~ Returned(u)

\* what stays of a returned call: the operation, its post, the status it saw,
\* what it sent, and its result
Finish(call, r) ==
    [ call EXCEPT !.pc = "done", !.result = r,
                  !.admin_id = None, !.comment = None, !.todo = {} ]

\* publish_to_channel sending whether or not a channel is set
ChannelConfigured_always == TRUE

\* publish_to_channel fails closed, with no send, when no channel is set
ChannelConfigured == bot_config.publish_channel_id # None

\* automatic publication taken to be always on
AutoPublishEnabled_always == TRUE

\* config.auto_publish_enabled
AutoPublishEnabled == bot_config.auto_publish_enabled

\* the automatic evaluation going ahead although approval is required
AutoPublishProceeds_ignoring_approval == AutoPublishEnabled

\* evaluate_and_maybe_auto_publish goes past its first check
AutoPublishProceeds ==
    ~ ( ~ AutoPublishEnabled \/ bot_config.require_admin_approval )

\* the threshold compared strictly
ReachesThreshold_strict(score) == score > importance_threshold

\* importance_score >= config.importance_threshold
ReachesThreshold(score) == score >= importance_threshold

\* the send of bot.send_message: delivered, or TelegramError raised
Sent(outcome) == outcome = "ok"

\* ---------------------------------------------------------------- Init
\* the state Storage.load_from_file leaves: no posts yet, the users and the
\* configuration of the files; the configuration stays as loaded
Init ==
    /\ pending_posts = << >>
    /\ users \in [ UserIds -> [ can_submit_posts : BOOLEAN,
                                 keywords : { << >> },
                                 exclude_keywords : { << >> } ] ]
    /\ bot_config \in [ admin_ids : {AdminIds},
                        publish_channel_id : {None} \cup { Some(c) : c \in ChannelIds },
                        auto_publish_enabled : BOOLEAN,
                        require_admin_approval : BOOLEAN,
                        importance_criteria : {ImportanceCriteria} ]
    /\ tasks = [ t \in Tasks |-> IdleTask ]
    /\ clock = 0
    /\ scoring = NoScoring
    /\ token_cache = EmptyCache
    /\ issued = << >>
    /\ calls = NoCalls

\* submit_post_for_review without the can_submit_posts check
submit_post_unchecked(t, user_id, message_text, source_info, post_id) ==
    /\ Free(t)
    /\ users' = get_user(users, user_id)
    /\ pending_posts' =
          add_pending_post(pending_posts, post_id,
              PendingPost(user_id, message_text, source_info, None))
    /\ tasks' = [ tasks EXCEPT ![t] =
          Finish([ IdleTask EXCEPT !.op = "submit",
                                   !.user_id = Some(user_id),
                                   !.text = Some(message_text),
                                   !.source = source_info,
                                   !.post_id = Some(post_id) ], "post_id") ]
    /\ UNCHANGED bot_config
    /\ UNCHANGED << clock, scoring, token_cache, issued, calls >>

\* ------------------------------------------------ submit_post_for_review
submit_post_for_review(t, user_id, message_text, source_info, post_id) ==
    /\ Free(t)
    /\ users' = get_user(users, user_id)
    /\ LET call == [ IdleTask EXCEPT !.op = "submit",
                                     !.user_id = Some(user_id),
                                     !.text = Some(message_text),
                                     !.source = source_info ]
       IN IF ~ get_user(users, user_id)[user_id].can_submit_posts
          THEN /\ tasks' = [ tasks EXCEPT ![t] = Finish(call, "PermissionError") ]
               /\ UNCHANGED pending_posts
          ELSE /\ pending_posts' =
                     add_pending_post(pending_posts, post_id,
                         PendingPost(user_id, message_text, source_info, None))
               /\ tasks' = [ tasks EXCEPT ![t] =
                     Finish([ call EXCEPT !.post_id = Some(post_id) ], "post_id") ]
    /\ UNCHANGED bot_config
    /\ UNCHANGED << clock, scoring, token_cache, issued, calls >>

\* ---------------------------------------------------------- approve_post
\* the caller's previous call was an approve_post of this post that the
\* gateway failed
RetryOfFailed(t, post_id) ==
    /\ tasks[t].op = "approve"
    /\ tasks[t].post_id = Some(post_id)
    /\ tasks[t].publish \in {"failed", "no_channel"}

\* approve_post without the check that the post is PENDING
approve_post_any_status(t, post_id, admin_id, comment) ==
    /\ Free(t)
    /\ LET call == [ IdleTask EXCEPT !.op = "approve",
                                     !.post_id = Some(post_id),
                                     !.admin_id = Some(admin_id),
                                     !.comment = comment,
                                     !.retry = RetryOfFailed(t, post_id) ]
       IN IF post_id \notin DOMAIN pending_posts
          THEN tasks' = [ tasks EXCEPT ![t] = Finish(call, "False") ]
          ELSE LET post == pending_posts[post_id]
                   seen == [ call EXCEPT !.saw = Some(post.status),
                                         !.user_id = Some(post.user_id) ]
               IN IF ~ ChannelConfigured
                  THEN tasks' = [ tasks EXCEPT ![t] =
                           Finish([ seen EXCEPT !.publish = "no_channel" ], "False") ]
                  ELSE tasks' = [ tasks EXCEPT ![t] =
                           [ seen EXCEPT !.pc = "approve_publish",
                                         !.publish = "sending" ] ]
    /\ UNCHANGED << pending_posts, users, bot_config >>
    /\ UNCHANGED << clock, scoring, token_cache, issued, calls >>

approve_post(t, post_id, admin_id, comment) ==
    /\ Free(t)
    /\ LET call == [ IdleTask EXCEPT !.op = "approve",
                                     !.post_id = Some(post_id),
                                     !.admin_id = Some(admin_id),
                                     !.comment = comment,
                                     !.retry = RetryOfFailed(t, post_id) ]
       IN IF post_id \notin DOMAIN pending_posts
          THEN tasks' = [ tasks EXCEPT ![t] = Finish(call, "False") ]
          ELSE LET post == pending_posts[post_id]
                   seen == [ call EXCEPT !.saw = Some(post.status),
                                         !.user_id = Some(post.user_id) ]
               IN IF post.status # PENDING
                  THEN tasks' = [ tasks EXCEPT ![t] = Finish(seen, "False") ]
                  ELSE IF ~ ChannelConfigured
                  THEN tasks' = [ tasks EXCEPT ![t] =
                           Finish([ seen EXCEPT !.publish = "no_channel" ], "False") ]
                  ELSE tasks' = [ tasks EXCEPT ![t] =
                           [ seen EXCEPT !.pc = "approve_publish",
                                         !.publish = "sending" ] ]
    /\ UNCHANGED << pending_posts, users, bot_config >>
    /\ UNCHANGED << clock, scoring, token_cache, issued, calls >>

\* approve_post with the result of publish_to_channel ignored
approve_published_unconditional(t, outcome) ==
    /\ tasks[t].pc = "approve_publish"
    /\ pending_posts' =
          update_post_status(pending_posts, tasks[t].post_id[1],
                             APPROVED, tasks[t].admin_id, tasks[t].comment)
    /\ tasks' = [ tasks EXCEPT ![t] =
          IF Sent(outcome)
          THEN [ @ EXCEPT !.pc = "approve_notify", !.publish = "ok",
                          !.notify = "sending" ]
          ELSE Finish([ @ EXCEPT !.publish = "failed" ], "False") ]
    /\ UNCHANGED << users, bot_config >>
    /\ UNCHANGED << clock, scoring, token_cache, issued, calls >>

\* approve_post resetting the post to PENDING when the delivery fails
approve_published_rollback(t, outcome) ==
    /\ tasks[t].pc = "approve_publish"
    /\ IF Sent(outcome)
       THEN /\ pending_posts' =
                  update_post_status(pending_posts, tasks[t].post_id[1],
                                     APPROVED, tasks[t].admin_id, tasks[t].comment)
            /\ tasks' = [ tasks EXCEPT ![t] =
                            [ @ EXCEPT !.pc = "approve_notify",
                                       !.publish = "ok",
                                       !.notify = "sending" ] ]
       ELSE /\ pending_posts' =
                  update_post_status(pending_posts, tasks[t].post_id[1],
                                     PENDING, None, None)
            /\ tasks' = [ tasks EXCEPT ![t] =
                            Finish([ @ EXCEPT !.publish = "failed" ], "False") ]
    /\ UNCHANGED << users, bot_config >>
    /\ UNCHANGED << clock, scoring, token_cache, issued, calls >>

\* the send of publish_to_channel returns inside approve_post
approve_published(t, outcome) ==
    /\ tasks[t].pc = "approve_publish"
    /\ IF Sent(outcome)
       THEN /\ pending_posts' =
                  update_post_status(pending_posts, tasks[t].post_id[1],
                                     APPROVED, tasks[t].admin_id, tasks[t].comment)
            /\ tasks' = [ tasks EXCEPT ![t] =
                            [ @ EXCEPT !.pc = "approve_notify",
                                       !.publish = "ok",
                                       !.notify = "sending" ] ]
       ELSE /\ tasks' = [ tasks EXCEPT ![t] =
                            Finish([ @ EXCEPT !.publish = "failed" ], "False") ]
            /\ UNCHANGED pending_posts
    /\ UNCHANGED << users, bot_config >>
    /\ UNCHANGED << clock, scoring, token_cache, issued, calls >>

\* approve_post undoing the approval when the submitter cannot be notified
approve_notified_rollback(t, outcome) ==
    /\ tasks[t].pc = "approve_notify"
    /\ IF Sent(outcome)
       THEN /\ tasks' = [ tasks EXCEPT ![t] =
                            Finish([ @ EXCEPT !.notify = "ok" ], "True") ]
            /\ UNCHANGED pending_posts
       ELSE /\ tasks' = [ tasks EXCEPT ![t] =
                            Finish([ @ EXCEPT !.notify = "failed" ], "False") ]
            /\ pending_posts' =
                  update_post_status(pending_posts, tasks[t].post_id[1],
                                     PENDING, None, None)
    /\ UNCHANGED << users, bot_config >>
    /\ UNCHANGED << clock, scoring, token_cache, issued, calls >>

\* the submitter notification of approve_post returns or raises TelegramError
approve_notified(t, outcome) ==
    /\ tasks[t].pc = "approve_notify"
    /\ tasks' = [ tasks EXCEPT ![t] =
          Finish([ @ EXCEPT !.notify = IF Sent(outcome) THEN "ok" ELSE "failed" ],
                 "True") ]
    /\ UNCHANGED << pending_posts, users, bot_config >>
    /\ UNCHANGED << clock, scoring, token_cache, issued, calls >>

\* ----------------------------------------------------------- reject_post
reject_post(t, post_id, admin_id, comment) ==
    /\ Free(t)
    /\ LET call == [ IdleTask EXCEPT !.op = "reject",
                                     !.post_id = Some(post_id),
                                     !.admin_id = Some(admin_id),
                                     !.comment = comment ]
       IN IF post_id \notin DOMAIN pending_posts
          THEN /\ tasks' = [ tasks EXCEPT ![t] = Finish(call, "False") ]
               /\ UNCHANGED pending_posts
          ELSE LET post == pending_posts[post_id]
                   seen == [ call EXCEPT !.saw = Some(post.status),
                                         !.user_id = Some(post.user_id) ]
               IN IF post.status # PENDING
                  THEN /\ tasks' = [ tasks EXCEPT ![t] = Finish(seen, "False") ]
                       /\ UNCHANGED pending_posts
                  ELSE /\ pending_posts' =
                              update_post_status(pending_posts, post_id,
                                                 REJECTED, Some(admin_id), comment)
                       /\ tasks' = [ tasks EXCEPT ![t] =
                              [ seen EXCEPT !.pc = "reject_notify",
                                            !.notify = "sending" ] ]
    /\ UNCHANGED << users, bot_config >>
    /\ UNCHANGED << clock, scoring, token_cache, issued, calls >>

\* the submitter notification of reject_post returns or raises TelegramError
reject_notified(t, outcome) ==
    /\ tasks[t].pc = "reject_notify"
    /\ tasks' = [ tasks EXCEPT ![t] =
          Finish([ @ EXCEPT !.notify = IF Sent(outcome) THEN "ok" ELSE "failed" ],
                 "True") ]
    /\ UNCHANGED << pending_posts, users, bot_config >>
    /\ UNCHANGED << clock, scoring, token_cache, issued, calls >>

\* ----------------------------------------- evaluate_and_maybe_auto_publish
\* called with a post of the store; score is what evaluate_message_importance
\* returns for it
evaluate_and_maybe_auto_publish(t, post_id, score) ==
    /\ Free(t)
    /\ post_id \in DOMAIN pending_posts
    /\ LET post == pending_posts[post_id]
           call == [ IdleTask EXCEPT !.op = "evaluate",
                                     !.post_id = Some(post_id),
                                     !.saw = Some(post.status),
                                     !.user_id = Some(post.user_id) ]
           scored == [ call EXCEPT !.score = Some(score) ]
       IN IF ~ AutoPublishProceeds
          THEN /\ tasks' = [ tasks EXCEPT ![t] = Finish(call, "False") ]
               /\ UNCHANGED << pending_posts, users >>
          ELSE /\ users' = get_user(users, post.user_id)
               /\ pending_posts' =
                     [ pending_posts EXCEPT ![post_id].importance_score = Some(score) ]
               /\ IF ~ ReachesThreshold(score)
                  THEN tasks' = [ tasks EXCEPT ![t] = Finish(scored, "False") ]
                  ELSE IF ~ ChannelConfigured
                  THEN tasks' = [ tasks EXCEPT ![t] =
                           Finish([ scored EXCEPT !.publish = "no_channel" ], "False") ]
                  ELSE tasks' = [ tasks EXCEPT ![t] =
                           [ scored EXCEPT !.pc = "evaluate_publish",
                                           !.publish = "sending" ] ]
    /\ UNCHANGED bot_config
    /\ UNCHANGED << clock, scoring, token_cache, issued, calls >>

\* evaluate_and_maybe_auto_publish with the result of publish_to_channel ignored
evaluate_published_unconditional(t, outcome) ==
    /\ tasks[t].pc = "evaluate_publish"
    /\ pending_posts' =
          update_post_status(pending_posts, tasks[t].post_id[1],
                             PUBLISHED, None, None)
    /\ tasks' = [ tasks EXCEPT ![t] =
          IF Sent(outcome)
          THEN Finish([ @ EXCEPT !.publish = "ok" ], "True")
          ELSE Finish([ @ EXCEPT !.publish = "failed" ], "False") ]
    /\ UNCHANGED << users, bot_config >>
    /\ UNCHANGED << clock, scoring, token_cache, issued, calls >>

\* the send of publish_to_channel returns inside evaluate_and_maybe_auto_publish
evaluate_published(t, outcome) ==
    /\ tasks[t].pc = "evaluate_publish"
    /\ IF Sent(outcome)
       THEN /\ pending_posts' =
                  update_post_status(pending_posts, tasks[t].post_id[1],
                                     PUBLISHED, None, None)
            /\ tasks' = [ tasks EXCEPT ![t] =
                            Finish([ @ EXCEPT !.publish = "ok" ], "True") ]
       ELSE /\ tasks' = [ tasks EXCEPT ![t] =
                            Finish([ @ EXCEPT !.publish = "failed" ], "False") ]
            /\ UNCHANGED pending_posts
    /\ UNCHANGED << users, bot_config >>
    /\ UNCHANGED << clock, scoring, token_cache, issued, calls >>

\* ------------------------------------------------ process_important_message
\* process_important_message with the threshold check left out
BelowThreshold_never(score) == FALSE

\* importance_score < config.importance_threshold
BelowThreshold(score) == score < importance_threshold

\* post_id is the id uuid4 hands out when the message is queued for review
process_important_message(t, message_text, score, post_id) ==
    /\ Free(t)
    /\ LET call == [ IdleTask EXCEPT !.op = "process",
                                     !.text = Some(message_text),
                                     !.score = Some(score) ]
       IN IF ~ AutoPublishEnabled
          THEN /\ tasks' = [ tasks EXCEPT ![t] = Finish(call, "False") ]
               /\ UNCHANGED pending_posts
          ELSE IF BelowThreshold(score)
          THEN /\ tasks' = [ tasks EXCEPT ![t] = Finish(call, "False") ]
               /\ UNCHANGED pending_posts
          ELSE IF bot_config.require_admin_approval
          THEN /\ post_id \in PostIds
               /\ pending_posts' =
                     add_pending_post(pending_posts, post_id,
                         PendingPost(SystemUser, message_text, AutoSource, Some(score)))
               /\ LET queued == [ call EXCEPT !.post_id = Some(post_id),
                                              !.user_id = Some(SystemUser),
                                              !.source = AutoSource ]
                  IN IF bot_config.admin_ids = {}
                     THEN tasks' = [ tasks EXCEPT ![t] = Finish(queued, "False") ]
                     ELSE tasks' = [ tasks EXCEPT ![t] =
                              [ queued EXCEPT !.pc = "process_notify",
                                              !.notify = "sending",
                                              !.todo = bot_config.admin_ids ] ]
          ELSE /\ UNCHANGED pending_posts
               /\ IF ~ ChannelConfigured
                  THEN tasks' = [ tasks EXCEPT ![t] =
                           Finish([ call EXCEPT !.publish = "no_channel" ], "False") ]
                  ELSE tasks' = [ tasks EXCEPT ![t] =
                           [ call EXCEPT !.pc = "process_publish",
                                         !.publish = "sending" ] ]
    /\ UNCHANGED << users, bot_config >>
    /\ UNCHANGED << clock, scoring, token_cache, issued, calls >>

\* notify_admins_about_new_post: one send per configured admin, failures logged
process_notified(t, admin_id, outcome) ==
    /\ tasks[t].pc = "process_notify"
    /\ admin_id \in tasks[t].todo
    /\ LET left == tasks[t].todo \ {admin_id}
       IN IF left = {}
          THEN tasks' = [ tasks EXCEPT ![t] =
                            Finish([ @ EXCEPT !.notify = "done" ], "False") ]
          ELSE tasks' = [ tasks EXCEPT ![t] = [ @ EXCEPT !.todo = left ] ]
    /\ UNCHANGED << pending_posts, users, bot_config >>
    /\ UNCHANGED << clock, scoring, token_cache, issued, calls >>

\* process_important_message reporting a publication whatever the gateway said
process_published_always_true(t, outcome) ==
    /\ tasks[t].pc = "process_publish"
    /\ tasks' = [ tasks EXCEPT ![t] =
          IF Sent(outcome)
          THEN Finish([ @ EXCEPT !.publish = "ok" ], "True")
          ELSE Finish([ @ EXCEPT !.publish = "failed" ], "True") ]
    /\ UNCHANGED << pending_posts, users, bot_config >>
    /\ UNCHANGED << clock, scoring, token_cache, issued, calls >>

\* the send of publish_to_channel returns inside process_important_message
process_published(t, outcome) ==
    /\ tasks[t].pc = "process_publish"
    /\ tasks' = [ tasks EXCEPT ![t] =
          IF Sent(outcome)
          THEN Finish([ @ EXCEPT !.publish = "ok" ], "True")
          ELSE Finish([ @ EXCEPT !.publish = "failed" ], "False") ]
    /\ UNCHANGED << pending_posts, users, bot_config >>
    /\ UNCHANGED << clock, scoring, token_cache, issued, calls >>

\* ---------------------------------------------------------------- Next
\* uuid4 hands out an id no stored post has
FreshPostIds(P) ==
    { id \in P : id \notin DOMAIN pending_posts
                 /\ \A x \in P : x < id => x \in DOMAIN pending_posts }

\* the calls of the coroutines T on the post ids P
NextOver(T, P) ==
    \/ \E t \in T, u \in UserIds, m \in Submissions, id \in FreshPostIds(P) :
          submit_post_for_review(t, u, m[1], m[2], id)
    \/ \E t \in T, p \in P, a \in AdminIds, c \in ApproveComments :
          approve_post(t, p, a, c)
    \/ \E t \in T, o \in SendOutcomes : approve_published(t, o)
    \/ \E t \in T, o \in SendOutcomes : approve_notified(t, o)
    \/ \E t \in T, p \in P, a \in AdminIds, c \in RejectComments :
          reject_post(t, p, a, c)
    \/ \E t \in T, o \in SendOutcomes : reject_notified(t, o)
    \/ \E t \in T, p \in P, s \in Scores :
          evaluate_and_maybe_auto_publish(t, p, s)
    \/ \E t \in T, o \in SendOutcomes : evaluate_published(t, o)
    \/ \E t \in T, m \in Texts, s \in Scores, id \in FreshPostIds(P) \cup {0} :
          process_important_message(t, m, s, id)
    \/ \E t \in T, a \in AdminIds, o \in SendOutcomes : process_notified(t, a, o)
    \/ \E t \in T, o \in SendOutcomes : process_published(t, o)

\* coroutines interleaved at their awaits, contending for one post
SharedPosts == { p \in PostIds : \A q \in PostIds : p <= q }
Next == NextOver(Tasks, SharedPosts)
Spec == Init /\ [][Next]_vars

\* one call at a time, as the dispatcher of the bot runs its handlers, over
\* every post id
Dispatcher == { t \in Tasks : \A u \in Tasks : t <= u }
NextSeq == NextOver(Dispatcher, PostIds)
SpecSeq == Init /\ [][NextSeq]_vars

\* ===================================================================
\* Properties of the post lifecycle
\* ===================================================================
StatusOf(posts, p) == posts[p].status

\* task t takes a step of operation op
StepOf(t, op) == tasks'[t] # tasks[t] /\ tasks'[t].op = op

\* task t starts a call of operation op
CallOf(t, op) == Returned(t) /\ StepOf(t, op)

\* the post a task's call is about
PostOf(task) == task.post_id[1]

\* C1: approve_post makes a post APPROVED (or PUBLISHED) only in the step in
\* which its own publish_to_channel call returned true; when that call fails
\* (TelegramError, or no channel configured), approve_post returns False and
\* writes nothing, so the post it read as PENDING stays as it was.
C1_ApprovedOnlyAfterDelivery ==
    [][ /\ \A p \in DOMAIN pending_posts :
             ( StatusOf(pending_posts', p) = APPROVED
               /\ StatusOf(pending_posts, p) # APPROVED )
             => \E t \in Tasks :
                   /\ tasks[t].pc = "approve_publish"
                   /\ tasks[t].post_id = Some(p)
                   /\ tasks'[t].publish = "ok"
        /\ \A t \in Tasks :
             ( StepOf(t, "approve") /\ pending_posts' # pending_posts )
             => /\ tasks[t].pc = "approve_publish"
                /\ tasks'[t].publish = "ok"
                /\ StatusOf(pending_posts', PostOf(tasks[t])) = APPROVED
        /\ \A t \in Tasks :
             ( StepOf(t, "approve")
               /\ tasks'[t].publish \in {"failed", "no_channel"} )
             => /\ tasks'[t].pc = "done"
                /\ tasks'[t].result = "False"
                /\ pending_posts' = pending_posts
                /\ ( tasks'[t].publish = "no_channel"
                     => StatusOf(pending_posts', PostOf(tasks'[t])) = PENDING )
      ]_vars

\* C1 witness: an approve_post that retried a post after the gateway had
\* failed its previous approval, delivered, and left the post APPROVED
C1_RetrySucceeded ==
    \E t \in Tasks :
       /\ tasks[t].op = "approve" /\ tasks[t].pc = "done"
       /\ tasks[t].retry /\ tasks[t].result = "True"
       /\ StatusOf(pending_posts, PostOf(tasks[t])) = APPROVED

\* a call that decided a post it read as PENDING and returned True
Decided(t, p) ==
    /\ tasks[t].op \in {"approve", "reject"}
    /\ tasks[t].pc = "done"
    /\ tasks[t].post_id = Some(p)
    /\ tasks[t].saw = Some(PENDING)
    /\ tasks[t].result = "True"

\* C2: of the approve_post and reject_post calls running concurrently on one
\* PENDING post at most one returns True, and the status the first wrote is
\* not overwritten by another of them.
C2_OneTerminalTransition ==
    [][ /\ \A t, u \in Tasks, p \in PostIds :
             ( t # u /\ Decided(t, p)' ) => ~ Decided(u, p)'
        /\ \A t \in Tasks, p \in DOMAIN pending_posts :
             ( ( StepOf(t, "approve") \/ StepOf(t, "reject") )
               /\ StatusOf(pending_posts, p) # PENDING )
             => StatusOf(pending_posts', p) = StatusOf(pending_posts, p)
      ]_vars
\* C3: once a post is REJECTED or PUBLISHED no operation changes its status.
C3_TerminalStatesFinal ==
    [][ \A p \in DOMAIN pending_posts :
           StatusOf(pending_posts, p) \in {REJECTED, PUBLISHED}
           => StatusOf(pending_posts', p) = StatusOf(pending_posts, p)
      ]_vars

\* C4: a post becomes PUBLISHED only in the step in which a publish_to_channel
\* call made for it returned true; when the publish call of
\* evaluate_and_maybe_auto_publish fails (TelegramError, or no channel), the
\* call returns False and no post's status changes.
C4_PublishedOnlyAfterDelivery ==
    [][ /\ \A p \in DOMAIN pending_posts :
             ( StatusOf(pending_posts', p) = PUBLISHED
               /\ StatusOf(pending_posts, p) # PUBLISHED )
             => \E t \in Tasks :
                   /\ tasks[t].pc = "evaluate_publish"
                   /\ tasks[t].post_id = Some(p)
                   /\ tasks'[t].publish = "ok"
        /\ \A t \in Tasks :
             ( StepOf(t, "evaluate")
               /\ tasks'[t].publish \in {"failed", "no_channel"} )
             => /\ tasks'[t].pc = "done"
                /\ tasks'[t].result = "False"
                /\ \A p \in DOMAIN pending_posts :
                      StatusOf(pending_posts', p) = StatusOf(pending_posts, p)
      ]_vars

\* C4 witness: an automatic evaluation delivered its post and made it PUBLISHED
C4_AutoPublished ==
    \E t \in Tasks :
       /\ tasks[t].op = "evaluate" /\ tasks[t].pc = "done"
       /\ tasks[t].publish = "ok" /\ tasks[t].result = "True"
       /\ StatusOf(pending_posts, PostOf(tasks[t])) = PUBLISHED

\* C5: every change of a post's status is PENDING -> APPROVED,
\* APPROVED -> PUBLISHED or PENDING -> REJECTED.
C5_OnlyLifecycleEdges ==
    [][ \A p \in DOMAIN pending_posts :
           StatusOf(pending_posts', p) # StatusOf(pending_posts, p)
           => << StatusOf(pending_posts, p), StatusOf(pending_posts', p) >>
                 \in { << PENDING, APPROVED >>, << APPROVED, PUBLISHED >>,
                       << PENDING, REJECTED >> }
      ]_vars

\* C6: a stored post stays stored, and once its status is APPROVED, REJECTED
\* or PUBLISHED it is never PENDING again.
C6_NeverBackToPending ==
    [][ \A p \in DOMAIN pending_posts :
           /\ p \in DOMAIN pending_posts'
           /\ StatusOf(pending_posts, p) # PENDING
              => StatusOf(pending_posts', p) # PENDING
      ]_vars

\* C6 witness: a call has run to its end on a post that was already decided
\* when the call read it
C6_OperatedOnDecidedPost ==
    \E t \in Tasks :
       /\ tasks[t].op \in {"approve", "reject", "evaluate"}
       /\ tasks[t].pc = "done"
       /\ tasks[t].saw \in { Some(APPROVED), Some(REJECTED), Some(PUBLISHED) }
       /\ StatusOf(pending_posts, PostOf(tasks[t])) # PENDING

\* the post a starting approve_post or reject_post names is unknown or is
\* not PENDING
NotReviewable(p) ==
    p \notin DOMAIN pending_posts \/ StatusOf(pending_posts, p) # PENDING

\* C7: approve_post and reject_post on an unknown post id or on a post that
\* is not PENDING return False at once, call neither the publication channel
\* nor the submitter, and leave every stored post as it was.
C7_NoOpOnUnknownOrDecided ==
    [][ \A t \in Tasks :
           ( ( CallOf(t, "approve") \/ CallOf(t, "reject") )
             /\ NotReviewable(PostOf(tasks'[t])) )
           => /\ tasks'[t].pc = "done"
              /\ tasks'[t].result = "False"
              /\ tasks'[t].publish = "none"
              /\ tasks'[t].notify = "none"
              /\ pending_posts' = pending_posts
      ]_vars

\* C7 witness: with two posts stored, an approve_post found its post REJECTED
\* and returned False
C7_RefusedDecidedPost ==
    \E t \in Tasks :
       /\ tasks[t].op = "approve" /\ tasks[t].pc = "done"
       /\ tasks[t].saw = Some(REJECTED)
       /\ tasks[t].result = "False"
       /\ Cardinality(DOMAIN pending_posts) = 2

\* C8: reject_post on a PENDING post makes exactly that post REJECTED with the
\* reviewing admin and the comment recorded, makes no publish_to_channel call,
\* and returns True.
C8_RejectRecordsReview ==
    [][ \A t \in Tasks :
           /\ ( CallOf(t, "reject") /\ ~ NotReviewable(PostOf(tasks'[t])) )
              => /\ tasks'[t].pc = "reject_notify"
                 /\ tasks'[t].publish = "none"
                 /\ pending_posts' =
                      [ pending_posts EXCEPT ![PostOf(tasks'[t])] =
                          [ @ EXCEPT !.status = REJECTED,
                                     !.reviewed_at = Some("now"),
                                     !.reviewed_by = tasks'[t].admin_id,
                                     !.admin_comment = tasks'[t].comment ] ]
                 /\ tasks'[t].admin_id # None
           /\ ( tasks[t].pc = "reject_notify" /\ StepOf(t, "reject") )
              => /\ tasks'[t].pc = "done"
                 /\ tasks'[t].result = "True"
                 /\ tasks'[t].publish = "none"
                 /\ pending_posts' = pending_posts
      ]_vars

\* C8 witness: a reject_post returned True and its post is REJECTED with the
\* admin and the comment of the call
C8_Rejected ==
    \E t \in Tasks :
       /\ tasks[t].op = "reject" /\ tasks[t].pc = "done"
       /\ tasks[t].result = "True"
       /\ LET post == pending_posts[PostOf(tasks[t])]
          IN /\ post.status = REJECTED
             /\ post.reviewed_by \in { Some(a) : a \in AdminIds }
             /\ post.admin_comment \in RejectComments

\* C9: with calls run one at a time, an approve_post (after a successful
\* delivery) or reject_post whose submitter notification failed has returned
\* True and its post has the status the call gave it.
C9_NotificationFailureKeepsDecision ==
    \A t \in Tasks :
       ( tasks[t].pc = "done" /\ tasks[t].notify = "failed" )
       => /\ tasks[t].op \in {"approve", "reject"}
          /\ tasks[t].result = "True"
          /\ StatusOf(pending_posts, PostOf(tasks[t])) =
                IF tasks[t].op = "approve" THEN APPROVED ELSE REJECTED

\* C9 witness: an approve_post delivered its post, failed to notify the
\* submitter, and returned
C9_ApprovedUnnotified ==
    \E t \in Tasks :
       /\ tasks[t].op = "approve" /\ tasks[t].pc = "done"
       /\ tasks[t].publish = "ok" /\ tasks[t].notify = "failed"

\* C10: submit_post_for_review by a user whose can_submit_posts is false ends
\* with PermissionError and the store unchanged; by any other user it returns
\* a post id and the store is the old one plus, under that id, a PENDING
\* post with the submitter, text and source of the call.
C10_SubmitStoresOnePendingPost ==
    [][ \A t \in Tasks :
           CallOf(t, "submit")
           => LET call == tasks'[t]
                  user_id == call.user_id[1]
              IN IF user_id \in DOMAIN users /\ ~ users[user_id].can_submit_posts
                 THEN /\ call.result = "PermissionError"
                      /\ pending_posts' = pending_posts
                 ELSE /\ call.result = "post_id"
                      /\ PostOf(call) \notin DOMAIN pending_posts
                      /\ DOMAIN pending_posts' =
                            (DOMAIN pending_posts) \cup { PostOf(call) }
                      /\ \A p \in DOMAIN pending_posts :
                            pending_posts'[p] = pending_posts[p]
                      /\ pending_posts'[PostOf(call)] =
                            [ user_id |-> user_id,
                              message_text |-> call.text[1],
                              source_info |-> call.source,
                              importance_score |-> None,
                              status |-> PENDING,
                              reviewed_at |-> None,
                              reviewed_by |-> None,
                              admin_comment |-> None ]
      ]_vars

\* C10 witness: a submission was stored as a second post, PENDING, beside an
\* earlier one
C10_SecondPostStored ==
    \E t \in Tasks :
       /\ tasks[t].op = "submit" /\ tasks[t].pc = "done"
       /\ tasks[t].result = "post_id"
       /\ Cardinality(DOMAIN pending_posts) = 2
       /\ StatusOf(pending_posts, PostOf(tasks[t])) = PENDING
       /\ pending_posts[PostOf(tasks[t])].source_info = Some("source")

\* a refused submission: the submitter may not submit posts
SubmissionRefused ==
    \E t \in Tasks :
       /\ tasks[t].op = "submit" /\ tasks[t].pc = "done"
       /\ tasks[t].result = "PermissionError"

\* the statuses of the stored posts are what they were
StatusesUnchanged ==
    /\ DOMAIN pending_posts' = DOMAIN pending_posts
    /\ \A p \in DOMAIN pending_posts :
          StatusOf(pending_posts', p) = StatusOf(pending_posts, p)

\* C11: evaluate_and_maybe_auto_publish called while auto_publish_enabled is
\* false or require_admin_approval is true returns False at once: no score is
\* computed, nothing is sent to the channel, and every post (status and
\* importance_score included) and every user record is as before.
C11_EvaluateNoOpUnlessAutomatic ==
    [][ \A t \in Tasks :
           ( CallOf(t, "evaluate")
             /\ ( ~ bot_config.auto_publish_enabled
                  \/ bot_config.require_admin_approval ) )
           => /\ tasks'[t].pc = "done"
              /\ tasks'[t].result = "False"
              /\ tasks'[t].score = None
              /\ tasks'[t].publish = "none"
              /\ pending_posts' = pending_posts
              /\ users' = users
      ]_vars

\* C11 witness: with automatic publication on but admin approval required, an
\* evaluation of a PENDING post returned False without a score
C11_EvaluationSkipped ==
    \E t \in Tasks :
       /\ tasks[t].op = "evaluate" /\ tasks[t].pc = "done"
       /\ tasks[t].score = None /\ tasks[t].result = "False"
       /\ bot_config.auto_publish_enabled /\ bot_config.require_admin_approval
       /\ tasks[t].saw = Some(PENDING)

\* C12: when evaluate_and_maybe_auto_publish proceeds it scores the post and
\* calls publish_to_channel if and only if the score is >= importance_threshold;
\* the call is made once: when it succeeds the post becomes PUBLISHED and the
\* result is True, in every other case the result is False and no status
\* changes.
C12_PublishesIffThresholdReached ==
    [][ \A t \in Tasks :
           /\ ( CallOf(t, "evaluate")
                /\ bot_config.auto_publish_enabled
                /\ ~ bot_config.require_admin_approval )
              => LET call == tasks'[t]
                 IN /\ call.score # None
                    /\ ( call.publish # "none" )
                          <=> ( call.score[1] >= importance_threshold )
                    /\ call.publish \in {"none", "no_channel", "sending"}
                    /\ ( call.publish \in {"none", "no_channel"} )
                          => ( call.pc = "done" /\ call.result = "False" )
                    /\ ( call.publish = "sending" )
                          => call.pc = "evaluate_publish"
                    /\ StatusesUnchanged
           /\ ( tasks[t].pc = "evaluate_publish" /\ StepOf(t, "evaluate") )
              => /\ tasks'[t].pc = "done"
                 /\ tasks'[t].publish \in {"ok", "failed"}
                 /\ ( tasks'[t].publish = "ok" )
                       => /\ tasks'[t].result = "True"
                          /\ StatusOf(pending_posts', PostOf(tasks[t])) = PUBLISHED
                 /\ ( tasks'[t].publish = "failed" )
                       => /\ tasks'[t].result = "False"
                          /\ pending_posts' = pending_posts
           /\ ( tasks'[t].op = "evaluate" /\ tasks'[t].pc = "done" )
              => ( ( tasks'[t].result = "True" ) <=> ( tasks'[t].publish = "ok" ) )
      ]_vars

\* C12 witness: a post scored exactly at the threshold was sent once, the send
\* failed, and the evaluation returned False with the post still PENDING
C12_ThresholdScoreNotDelivered ==
    \E t \in Tasks :
       /\ tasks[t].op = "evaluate" /\ tasks[t].pc = "done"
       /\ tasks[t].score = Some(importance_threshold)
       /\ tasks[t].publish = "failed" /\ tasks[t].result = "False"
       /\ StatusOf(pending_posts, PostOf(tasks[t])) = PENDING

\* the post process_important_message queues for review: system submitter,
\* source marked as automatic monitoring, the score of the call, PENDING
QueuedForReview(call) ==
    [ user_id |-> SystemUser,
      message_text |-> call.text[1],
      source_info |-> AutoSource,
      importance_score |-> call.score,
      status |-> PENDING,
      reviewed_at |-> None,
      reviewed_by |-> None,
      admin_comment |-> None ]

\* the call of task t returned False having stored, published and notified
\* nothing
ProcessDidNothing(t) ==
    /\ tasks'[t].pc = "done"
    /\ tasks'[t].result = "False"
    /\ tasks'[t].publish = "none"
    /\ tasks'[t].notify = "none"
    /\ tasks'[t].post_id = None
    /\ pending_posts' = pending_posts

\* C13: process_important_message called while auto_publish_enabled is false
\* returns False at once for every message and score: nothing is sent to the
\* channel, no post is stored and no admin is notified.
C13_ProcessNoOpWhenDisabled ==
    [][ \A t \in Tasks :
           ( CallOf(t, "process") /\ ~ bot_config.auto_publish_enabled )
           => ProcessDidNothing(t)
      ]_vars

\* C13 witness: with automatic publication off and a channel configured, a
\* message scored at the threshold was processed and nothing was done
C13_ImportantMessageIgnored ==
    \E t \in Tasks :
       /\ tasks[t].op = "process" /\ tasks[t].pc = "done"
       /\ tasks[t].score = Some(importance_threshold)
       /\ ~ bot_config.auto_publish_enabled
       /\ ChannelConfigured
       /\ tasks[t].result = "False" /\ tasks[t].publish = "none"
       /\ pending_posts = << >>

\* the steps of a process_important_message call that queues its message:
\* the call stores one PENDING post and starts notifying the configured
\* admins, sends nothing to the channel, and returns False after the last
\* notification
QueuesForReview(t) ==
    /\ CallOf(t, "process")
       => LET call == tasks'[t]
          IN /\ call.post_id # None
             /\ PostOf(call) \notin DOMAIN pending_posts
             /\ pending_posts' =
                   StoreWith(pending_posts, PostOf(call), QueuedForReview(call))
             /\ call.pc = "process_notify"
             /\ call.todo = bot_config.admin_ids
             /\ call.publish = "none"
    /\ ( tasks[t].pc = "process_notify" /\ StepOf(t, "process") )
       => /\ tasks'[t].publish = "none"
          /\ pending_posts' = pending_posts
          /\ IF tasks'[t].pc = "done"
             THEN tasks'[t].result = "False" /\ tasks'[t].notify = "done"
             ELSE /\ tasks'[t].pc = "process_notify"
                  /\ tasks'[t].todo # tasks[t].todo
                  /\ tasks'[t].todo \subseteq tasks[t].todo

\* C14 as stated: with auto_publish_enabled and require_admin_approval both
\* true, every process_important_message call stores a PENDING post (system
\* submitter, automatic-monitoring source, the given score), notifies the
\* admins, sends nothing to the channel and returns False.
C14_AlwaysQueuesForReview ==
    [][ \A t \in Tasks :
           ( StepOf(t, "process")
             /\ bot_config.auto_publish_enabled
             /\ bot_config.require_admin_approval )
           => QueuesForReview(t)
      ]_vars

\* C14 amended: with auto_publish_enabled and require_admin_approval both
\* true, a process_important_message call whose score is >= importance_threshold
\* stores a PENDING post (system submitter, automatic-monitoring source, the
\* given score), sends a notification to every configured admin, sends
\* nothing to the channel and returns False; a call with a lower score returns
\* False and stores, publishes and notifies nothing.
C14_QueuesImportantForReview ==
    [][ \A t \in Tasks :
           ( StepOf(t, "process")
             /\ bot_config.auto_publish_enabled
             /\ bot_config.require_admin_approval )
           => IF tasks'[t].score[1] >= importance_threshold
              THEN QueuesForReview(t)
              ELSE CallOf(t, "process") /\ ProcessDidNothing(t)
      ]_vars

\* C14 witness: a message was queued as a PENDING post of the system
\* submitter, the admins were notified, and the call returned False
C14_QueuedAndNotified ==
    \E t \in Tasks :
       /\ tasks[t].op = "process" /\ tasks[t].pc = "done"
       /\ tasks[t].notify = "done" /\ tasks[t].result = "False"
       /\ tasks[t].publish = "none"
       /\ pending_posts[PostOf(tasks[t])].user_id = SystemUser
       /\ pending_posts[PostOf(tasks[t])].source_info = AutoSource
       /\ pending_posts[PostOf(tasks[t])].importance_score = tasks[t].score

\* the steps of a process_important_message call that publishes directly: one
\* publish_to_channel call, True when it returned true and False when it
\* failed, no exception, nothing stored and nobody notified
PublishesDirectly(t) ==
    /\ CallOf(t, "process")
       => LET call == tasks'[t]
          IN /\ call.publish \in {"sending", "no_channel"}
             /\ ( call.publish = "sending" ) => call.pc = "process_publish"
             /\ ( call.publish = "no_channel" )
                   => ( call.pc = "done" /\ call.result = "False" )
    /\ ( tasks[t].pc = "process_publish" /\ StepOf(t, "process") )
       => /\ tasks'[t].pc = "done"
          /\ tasks'[t].publish \in {"ok", "failed"}
          /\ ( tasks'[t].result = "True" ) <=> ( tasks'[t].publish = "ok" )
          /\ ( tasks'[t].result = "False" ) <=> ( tasks'[t].publish = "failed" )
    /\ tasks'[t].notify = "none"
    /\ pending_posts' = pending_posts

\* C15 as stated: with auto_publish_enabled true and require_admin_approval
\* false, every process_important_message call attempts one direct
\* publication and returns True exactly when publish_to_channel returned
\* true, False when it failed, and never raises.
C15_AlwaysPublishesDirectly ==
    [][ \A t \in Tasks :
           ( StepOf(t, "process")
             /\ bot_config.auto_publish_enabled
             /\ ~ bot_config.require_admin_approval )
           => PublishesDirectly(t)
      ]_vars

\* C15 amended: with auto_publish_enabled true and require_admin_approval
\* false, a process_important_message call whose score is >=
\* importance_threshold attempts one direct publication and returns True
\* exactly when publish_to_channel returned true, False when it failed, and
\* never raises; a call with a lower score returns False without attempting a
\* publication.
C15_PublishesImportantDirectly ==
    [][ \A t \in Tasks :
           ( StepOf(t, "process")
             /\ bot_config.auto_publish_enabled
             /\ ~ bot_config.require_admin_approval )
           => IF tasks'[t].score[1] >= importance_threshold
              THEN PublishesDirectly(t)
              ELSE CallOf(t, "process") /\ ProcessDidNothing(t)
      ]_vars

\* C15 witness: one call published its message directly and returned True,
\* and another call's publication failed and it returned False
C15_PublishedAndFailed ==
    \E t, u \in Tasks :
       /\ tasks[t].op = "process" /\ tasks[t].pc = "done"
       /\ tasks[t].publish = "ok" /\ tasks[t].result = "True"
       /\ tasks[u].op = "process" /\ tasks[u].pc = "done"
       /\ tasks[u].publish = "failed" /\ tasks[u].result = "False"

\* C16: publish_to_channel, in each of its callers, returns false with no
\* send when no channel is configured (the caller then returns False at
\* once); with a channel it makes one send and the caller takes the
\* success branch exactly when the send was delivered; whichever TelegramError
\* the send raises, the caller gets false and returns False.
C16_PublishFailsClosed ==
    [][ \A t \in Tasks :
           /\ ( tasks[t].publish = "none" /\ tasks'[t].publish # "none" )
              => IF bot_config.publish_channel_id # None
                 THEN tasks'[t].publish = "sending"
                      /\ tasks'[t].pc \in {"approve_publish", "evaluate_publish",
                                           "process_publish"}
                 ELSE tasks'[t].publish = "no_channel"
                      /\ tasks'[t].pc = "done"
                      /\ tasks'[t].result = "False"
           /\ ( tasks[t].publish = "sending" /\ tasks'[t] # tasks[t] )
              => /\ tasks'[t].publish \in {"ok", "failed"}
                 /\ \A o \in SendOutcomes :
                       ( approve_published(t, o) \/ evaluate_published(t, o)
                         \/ process_published(t, o) )
                       => IF o \in TelegramError
                          THEN /\ tasks'[t].publish = "failed"
                               /\ tasks'[t].pc = "done"
                               /\ tasks'[t].result = "False"
                          ELSE /\ tasks'[t].publish = "ok"
                               /\ tasks'[t].result # "False"
           /\ ( tasks[t].publish \in {"ok", "failed", "no_channel"}
                /\ tasks'[t].op = tasks[t].op /\ ~ Returned(t) )
              => tasks'[t].publish = tasks[t].publish
      ]_vars

\* C16 witness: with a channel configured, a call has returned False after
\* its one send failed
C16_FailedSend ==
    \E t \in Tasks :
       /\ tasks[t].pc = "done" /\ tasks[t].publish = "failed"
       /\ tasks[t].result = "False"
       /\ bot_config.publish_channel_id # None

\* ===================================================================
\* Importance scoring (ai_service.py)
\* ===================================================================
\* hours the clock runs while an evaluation is observed
MaxClock == 2

\* a character is named by its Latin transliteration: "S" is the Cyrillic
\* capital Es and "s" the small one, "CH" and "ch" are Che, "ZH" and "zh" Zhe
lower_char(c) ==
    CASE c = "S" -> "s" [] c = "R" -> "r" [] c = "O" -> "o"
      [] c = "CH" -> "ch" [] c = "N" -> "n" [] c = "V" -> "v"
      [] c = "A" -> "a" [] c = "ZH" -> "zh" [] OTHER -> c

\* str.lower()
lower(text) == [ i \in 1..Len(text) |-> lower_char(text[i]) ]

\* keyword in text, for strings: text has keyword as a substring
substring_in(keyword, text) ==
    \E i \in 1..(Len(text) - Len(keyword) + 1) :
       SubSeq(text, i, i + Len(keyword) - 1) = keyword

\* the texts "СРОЧНО!" (7 characters), "ВАЖНО" (5), "СРОЧНО! ВАЖНО" (13)
\* and the empty text; the keywords "срочно", "важно", "но" and "!"
SROCHNO == << "S", "R", "O", "CH", "N", "O", "!" >>
VAZHNO == << "V", "A", "ZH", "N", "O" >>
MessageTexts == { SROCHNO, VAZHNO, SROCHNO \o << " " >> \o VAZHNO, << >> }
srochno == << "s", "r", "o", "ch", "n", "o" >>
vazhno == << "v", "a", "zh", "n", "o" >>
no == << "n", "o" >>

ChatIds == {100, 200}
\* message.date, in hours on the clock's scale: sent as the clock starts, or
\* 23 hours before
MessageDates == {0, 0 - 23}
Messages == [ text : MessageTexts, chat_id : ChatIds, date : MessageDates ]

\* bot_config.importance_criteria as an admin can have set it
CriteriaChoices ==
    { [ keywords_boost |-> kb,
        keywords_reduce |-> kr,
        sources_boost |-> src[1],
        sources_reduce |-> src[2],
        min_message_length |-> len[1],
        max_message_length |-> len[2],
        time_sensitivity |-> ts ] :
      kb \in { << >>, << srochno >>, << vazhno, srochno >> },
      kr \in { << >>, << no >> },
      src \in { << {}, {} >>, << {100}, {100, 200} >> },
      len \in { << 10, 4000 >>, << 6, 12 >> },
      ts \in BOOLEAN }

\* the keywords and exclude_keywords a user can have set
PreferenceChoices ==
    { [ can_submit_posts |-> TRUE, keywords |-> k[1], exclude_keywords |-> k[2] ] :
      k \in { << << >>, << >> >>, << << vazhno >>, << >> >>,
              << << vazhno >>, << << "!" >> >> >> } }

\* base scores evaluate_message_importance passes on, in hundredths
BaseScores == {0, 50, 60, 100}

\* what the scoring call comes back with: a JSON object with a numeric score
\* (in hundredths, whatever the model wrote), an object whose score is the
\* string "0.9" or the boolean true, an object with no score or one float()
\* rejects (null, a word), a reply that is not JSON, or an exception
Responses ==
    { [ kind |-> "score", score |-> s ] : s \in {0 - 20, 50, 150} }
    \cup { [ kind |-> "string", score |-> 90 ], [ kind |-> "bool", score |-> 100 ] }
    \cup { [ kind |-> k, score |-> 0 ] : k \in {"no_score", "unparsable", "error"} }

\* float(result.get('score', 0.5)) returns a number for a JSON number, for a
\* string that spells one and for a boolean
Convertible == {"score", "string", "bool"}

min(a, b) == IF b < a THEN b ELSE a
max(a, b) == IF b > a THEN b ELSE a

\* the clamp with its lower bound left out
Clamp01_upper_only(score) == min(100, score)

\* max(0.0, min(1.0, score))
Clamp01(score) == max(0, min(100, score))

\* score * 0.5, score * 0.8: the factor in tenths; exact in hundredths for
\* the base scores of the model, which are multiples of 0.1
Times(score, tenths) == (score * tenths) \div 10

\* any(keyword.lower() in message_lower), the loop with its break
any_keyword_in(keywords, message_lower) ==
    \E i \in DOMAIN keywords : substring_in(lower(keywords[i]), message_lower)

\* the length step with short messages let through
length_criteria_no_penalty(score, message, criteria) ==
    IF Len(message.text) > criteria.max_message_length
    THEN Times(score, 8)
    ELSE score

\* Length criteria
length_criteria(score, message, criteria) ==
    IF Len(message.text) < criteria.min_message_length
    THEN Times(score, 5)
    ELSE IF Len(message.text) > criteria.max_message_length
    THEN Times(score, 8)
    ELSE score

\* Check boost keywords
boost_keywords(score, message, criteria) ==
    IF any_keyword_in(criteria.keywords_boost, lower(message.text))
    THEN min(100, score + 20)
    ELSE score

\* the reduce step taking the absolute value where the code clamps at 0.0
reduce_keywords_absolute(score, message, criteria) ==
    IF any_keyword_in(criteria.keywords_reduce, lower(message.text))
    THEN IF score - 30 < 0 THEN 30 - score ELSE score - 30
    ELSE score

\* Check reduce keywords
reduce_keywords(score, message, criteria) ==
    IF any_keyword_in(criteria.keywords_reduce, lower(message.text))
    THEN max(0, score - 30)
    ELSE score

\* User personal keywords
user_keywords(score, message, user_preferences) ==
    IF any_keyword_in(user_preferences.keywords, lower(message.text))
    THEN min(100, score + 25)
    ELSE score

\* User exclude keywords
user_exclude_keywords(score, message, user_preferences) ==
    IF any_keyword_in(user_preferences.exclude_keywords, lower(message.text))
    THEN max(0, score - 40)
    ELSE score

\* Source-based adjustments
source_adjustments(score, message, criteria) ==
    IF message.chat_id \in criteria.sources_boost
    THEN min(100, score + 15)
    ELSE IF message.chat_id \in criteria.sources_reduce
    THEN max(0, score - 25)
    ELSE score

\* Time sensitivity, reading datetime.now()
time_sensitivity(score, message, criteria) ==
    IF criteria.time_sensitivity
    THEN LET hours_old == clock - message.date
         IN IF hours_old < 1
            THEN min(100, score + 10)
            ELSE IF hours_old > 24
            THEN max(0, score - 10)
            ELSE score
    ELSE score

\* apply_importance_criteria with the keyword boost ahead of the length step
apply_importance_criteria_boost_first(base_score, message, user_preferences) ==
    LET criteria == bot_config.importance_criteria
        s1 == boost_keywords(base_score, message, criteria)
        s2 == length_criteria(s1, message, criteria)
        s3 == reduce_keywords(s2, message, criteria)
        s4 == user_keywords(s3, message, user_preferences)
        s5 == user_exclude_keywords(s4, message, user_preferences)
        s6 == source_adjustments(s5, message, criteria)
        s7 == time_sensitivity(s6, message, criteria)
    IN Clamp01(s7)

\* apply_importance_criteria: reads Storage.bot_config and the clock
apply_importance_criteria(base_score, message, user_preferences) ==
    LET criteria == bot_config.importance_criteria
        s1 == length_criteria(base_score, message, criteria)
        s2 == boost_keywords(s1, message, criteria)
        s3 == reduce_keywords(s2, message, criteria)
        s4 == user_keywords(s3, message, user_preferences)
        s5 == user_exclude_keywords(s4, message, user_preferences)
        s6 == source_adjustments(s5, message, criteria)
        s7 == time_sensitivity(s6, message, criteria)
    IN Clamp01(s7)

\* the base score evaluate_message_importance takes from the scoring call:
\* a fallback of 0.0
base_score_of_fallback_zero(response) ==
    IF response.kind \in Convertible THEN Clamp01(response.score) ELSE 0

\* the clamped score of the reply, 0.5 when the reply has no score or one
\* float() rejects, is not JSON, or the call raised
base_score_of(response) ==
    IF response.kind \in Convertible THEN Clamp01(response.score) ELSE 50

evaluate_message_importance(message, user_preferences, response) ==
    apply_importance_criteria(base_score_of(response), message, user_preferences)

\* the evaluation observed: one function applied, at different times, to the
\* same inputs
ScoringChoices ==
    { [ fn |-> "apply", given |-> b, message |-> m, user_id |-> u,
        last |-> None, values |-> {} ] :
      b \in BaseScores, m \in Messages, u \in UserIds }
    \cup
    { [ fn |-> "evaluate", given |-> r, message |-> m, user_id |-> u,
        last |-> None, values |-> {} ] :
      r \in Responses, m \in Messages, u \in UserIds }

InitScore ==
    /\ pending_posts = << >>
    /\ tasks = [ t \in Tasks |-> IdleTask ]
    /\ users \in [ UserIds -> PreferenceChoices ]
    /\ bot_config \in [ admin_ids : {AdminIds},
                        publish_channel_id : {None},
                        auto_publish_enabled : {TRUE},
                        require_admin_approval : {TRUE},
                        importance_criteria : CriteriaChoices ]
    /\ clock = 0
    /\ scoring \in ScoringChoices
    /\ token_cache = EmptyCache
    /\ issued = << >>
    /\ calls = NoCalls

\* an hour passes
time_passes ==
    /\ clock < MaxClock
    /\ clock' = clock + 1
    /\ UNCHANGED << pending_posts, users, bot_config, tasks, scoring >>
    /\ UNCHANGED << token_cache, issued, calls >>

\* what a call leaves: when it was made, the base score it adjusted, and the
\* value it returned
Returns(base_score, value) ==
    [ scoring EXCEPT !.last = Some([ at |-> clock, base |-> base_score,
                                     value |-> value ]),
                     !.values = @ \cup {value} ]

\* a call apply_importance_criteria(base_score, message, user_preferences)
apply_call ==
    /\ scoring.fn = "apply"
    /\ scoring' = Returns(scoring.given,
          apply_importance_criteria(scoring.given, scoring.message,
                                    users[scoring.user_id]))
    /\ UNCHANGED << pending_posts, users, bot_config, tasks, clock >>
    /\ UNCHANGED << token_cache, issued, calls >>

\* a call evaluate_message_importance(message, user_preferences)
evaluate_call ==
    /\ scoring.fn = "evaluate"
    /\ scoring' = Returns(base_score_of(scoring.given),
          evaluate_message_importance(scoring.message, users[scoring.user_id],
                                      scoring.given))
    /\ UNCHANGED << pending_posts, users, bot_config, tasks, clock >>
    /\ UNCHANGED << token_cache, issued, calls >>

NextScore == time_passes \/ apply_call \/ evaluate_call
SpecScore == InitScore /\ [][NextScore]_vars

\* ===================================================================
\* Properties of the importance scoring
\* ===================================================================
\* an evaluation is observed and its function has returned at least once
Scored == scoring.fn # "none" /\ scoring.last # None

\* the last call: when it was made, its base score, the value it returned
LastCall == scoring.last[1]

\* base scores outside [0.0, 1.0], which no caller passes
OutOfRangeBaseScores == {0 - 20, 150}

\* C17: every value apply_importance_criteria and evaluate_message_importance
\* return lies in [0.0, 1.0] (0..100 hundredths), for every base score,
\* message, criteria, user preferences and outcome of the scoring call.
C17_ScoresWithinUnitInterval ==
    scoring.fn # "none"
    => /\ \A v \in scoring.values : 0 <= v /\ v <= 100
       /\ \A b \in BaseScores \cup OutOfRangeBaseScores :
             LET v == apply_importance_criteria(b, scoring.message,
                                                users[scoring.user_id])
             IN 0 <= v /\ v <= 100

\* C17 witness: the model's reply carried the score 1.5 and
\* evaluate_message_importance returned 1.0
C17_OutOfRangeReplyClamped ==
    /\ Scored
    /\ scoring.fn = "evaluate"
    /\ scoring.given.kind = "score" /\ scoring.given.score = 150
    /\ LastCall.value = 100

\* the adjustment as the specification lists it: seven steps in this order,
\* each on the running score, the score limited to [0.0, 1.0] after every
\* additive step
Limit(score) == IF score < 0 THEN 0 ELSE IF score > 100 THEN 100 ELSE score

ReferenceSteps ==
    << "length", "boost", "reduce", "recipient", "exclude", "source", "recency" >>

ReferenceStep(name, score, message, criteria, prefs, age) ==
    LET text == lower(message.text)
        matches(ks) == \E i \in DOMAIN ks : substring_in(lower(ks[i]), text)
    IN CASE name = "length" ->
              IF Len(message.text) < criteria.min_message_length
              THEN score \div 2
              ELSE IF Len(message.text) > criteria.max_message_length
              THEN (score * 4) \div 5
              ELSE score
         [] name = "boost" ->
              IF matches(criteria.keywords_boost) THEN Limit(score + 20) ELSE score
         [] name = "reduce" ->
              IF matches(criteria.keywords_reduce) THEN Limit(score - 30) ELSE score
         [] name = "recipient" ->
              IF matches(prefs.keywords) THEN Limit(score + 25) ELSE score
         [] name = "exclude" ->
              IF matches(prefs.exclude_keywords) THEN Limit(score - 40) ELSE score
         [] name = "source" ->
              IF message.chat_id \in criteria.sources_boost
              THEN Limit(score + 15)
              ELSE IF message.chat_id \in criteria.sources_reduce
              THEN Limit(score - 25)
              ELSE score
         [] name = "recency" ->
              IF criteria.time_sensitivity /\ age < 1
              THEN Limit(score + 10)
              ELSE IF criteria.time_sensitivity /\ age > 24
              THEN Limit(score - 10)
              ELSE score

RECURSIVE ReferenceFrom(_, _, _, _, _, _)
ReferenceFrom(k, score, message, criteria, prefs, age) ==
    IF k > Len(ReferenceSteps)
    THEN Limit(score)
    ELSE ReferenceFrom(k + 1,
            ReferenceStep(ReferenceSteps[k], score, message, criteria, prefs, age),
            message, criteria, prefs, age)

Reference(base_score, message, criteria, prefs, age) ==
    ReferenceFrom(1, base_score, message, criteria, prefs, age)

\* the example of the specification: base 0.6, a text of 5 characters with a
\* boost keyword in it, min_message_length 10
LengthThenBoostExample ==
    /\ scoring.fn = "apply" /\ scoring.given = 60
    /\ Len(scoring.message.text) = 5
    /\ bot_config.importance_criteria.min_message_length = 10
    /\ any_keyword_in(bot_config.importance_criteria.keywords_boost,
                      lower(scoring.message.text))

C19_SameInputsSameValue ==
    scoring.fn = "apply" => Cardinality(scoring.values) <= 1

\* the scenario of C20: the text "СРОЧНО!", base score 0.5, the boost keyword
\* "срочно", the default length thresholds, and no other keyword or source
\* criterion set
UrgentScenario ==
    /\ Scored
    /\ scoring.message.text = SROCHNO
    /\ ( scoring.fn = "apply" \/ scoring.given.kind = "score" )
    /\ LastCall.base = 50
    /\ bot_config.importance_criteria.keywords_boost = << srochno >>
    /\ bot_config.importance_criteria.keywords_reduce = << >>
    /\ bot_config.importance_criteria.sources_boost = {}
    /\ bot_config.importance_criteria.sources_reduce = {}
    /\ bot_config.importance_criteria.min_message_length = 10
    /\ bot_config.importance_criteria.max_message_length = 4000
    /\ users[scoring.user_id].keywords = << >>
    /\ users[scoring.user_id].exclude_keywords = << >>

\* C20 as stated: in the scenario the adjusted score is min(1.0, 0.5 + 0.2) =
\* 0.7, no length penalty being applied.
C20_UrgentScoresSeventy ==
    UrgentScenario => LastCall.value = 70

\* C20 amended: in the scenario the text has 7 characters, fewer than the
\* default min_message_length 10, so the length penalty is applied and the
\* score after the boost step is 0.5 * 0.5 + 0.2 = 0.45; the adjusted score is
\* 0.45, or 0.55 when time_sensitivity is on and the message is less than an
\* hour old, or 0.35 when it is on and the message is more than 24 hours old.
C20_UrgentPenalisedForLength ==
    UrgentScenario
    => LET criteria == bot_config.importance_criteria
           age == LastCall.at - scoring.message.date
       IN /\ Len(scoring.message.text) = 7
          /\ boost_keywords(length_criteria(50, scoring.message, criteria),
                            scoring.message, criteria) = 45
          /\ LastCall.value =
                IF criteria.time_sensitivity /\ age < 1 THEN 55
                ELSE IF criteria.time_sensitivity /\ age > 24 THEN 35
                ELSE 45

\* C20 witness: in the scenario, evaluate_message_importance returned 0.45 for
\* a reply scored 0.5
C20_UrgentScoredFortyFive ==
    /\ UrgentScenario
    /\ scoring.fn = "evaluate"
    /\ LastCall.value = 45

\* ===================================================================
\* The GigaChat client (ai_service.py): get_access_token over token_cache,
\* send_prompt, and the call chain of evaluate_message_importance.  The
\* calls are synchronous; a caller is a thread, which can lose the processor
\* only while requests.post waits for the endpoint.
\* ===================================================================
\* ---------------------------------------------------------------- bounds
\* tokens the auth endpoint issues before it stops handing out new ones
MaxTokens == 3

\* ------------------------------------------------------- program constants
\* max_retries of get_access_token and of send_prompt
max_retries == 3
\* retry_delay of send_prompt, in seconds
retry_delay == 2
\* timedelta(minutes=30) added to current_time, in minutes
TokenLifetime == 30

\* ------------------------------------------------------------ value sets
Threads == {1, 2}
MainThread == {1}

\* datetime values in minutes; the clock counts hours
Minutes(hours) == 60 * hours

\* lifetimes the auth endpoint can declare with its tokens, in minutes; an
\* endpoint declares the same lifetime with every token
ExpiresIn == {10, 30}
\* what requests.post to the auth endpoint comes back with: a body with an
\* access_token, a body without one, or a RequestException
ExchangeOutcomes ==
    { [ kind |-> "token", expires_in |-> l ] : l \in ExpiresIn }
    \cup { [ kind |-> k, expires_in |-> 0 ] :
           k \in {"no_token", "RequestException"} }

\* the model's reply carried in choices[0].message.content
Contents == { r \in Responses : r.kind # "error" }
\* what the chain hands to the fallback when it raised
Error == [ kind |-> "error", score |-> 0 ]
StatusCodes == {200, 401, 403, 429, 500}
\* what requests.post to the scoring endpoint comes back with: a response
\* with a status and, for 200, a body (the JSON envelope with the reply, a
\* JSON body without choices, or a body that is not JSON), or a
\* RequestException (status 0)
ScoringResponses ==
    { [ kind |-> "response", status |-> 200, envelope |-> "ok",
        content |-> c ] : c \in Contents }
    \cup { [ kind |-> "response", status |-> 200, envelope |-> e,
             content |-> Error ] : e \in {"no_choices", "not_json"} }
    \cup { [ kind |-> "response", status |-> s, envelope |-> "none",
             content |-> Error ] : s \in StatusCodes \ {200} }
    \cup { [ kind |-> "RequestException", status |-> 0, envelope |-> "none",
             content |-> Error ] }
NoResponse ==
    [ kind |-> "none", status |-> 0, envelope |-> "none", content |-> Error ]
\* the class of the error response.json() raises on a body that is not JSON:
\* requests.exceptions.JSONDecodeError (a RequestException) or, before
\* requests 2.27, a plain ValueError
JSONDecodeErrors == {"RequestException", "ValueError"}

\* messages handed to evaluate_message_importance
ClientMessages ==
    { [ text |-> SROCHNO \o << " " >> \o VAZHNO, chat_id |-> 100, date |-> 0 ] }

\* ------------------------------------------------------------- records
\* the frame of a caller: the call it makes, the locals of get_access_token
\* (force_refresh, current_time, its attempt) and of send_prompt (attempt,
\* access_token), where get_access_token returns to, and what the call has
\* done so far: exchanges and scoring requests made, forced refreshes,
\* time.sleep arguments of send_prompt, statuses received, the cache as
\* get_access_token found it, and the outcome
IdleCall ==
    [ op |-> "none", pc |-> "idle",
      force_refresh |-> FALSE, current_time |-> 0, token_attempt |-> 0,
      then |-> "return",
      message |-> CHOOSE m \in ClientMessages : TRUE, user_id |-> 1,
      attempt |-> 0, access_token |-> None,
      exchanges |-> 0, requests |-> 0, refreshes |-> 0,
      waits |-> << >>, statuses |-> << >>, response |-> NoResponse,
      cache_before |-> EmptyCache,
      result |-> [ kind |-> "none", value |-> 0, base |-> 0, at |-> 0 ] ]

NewCall(op) == [ IdleCall EXCEPT !.op = op ]

\* --------------------------------------------------- get_access_token
\* a cached token served whatever its expiry
CacheHit_ignoring_expiry(force_refresh) ==
    /\ ~ force_refresh
    /\ token_cache.token # None

\* lines 39-41: the cached token is served
CacheHit(force_refresh) ==
    /\ ~ force_refresh
    /\ token_cache.token # None
    /\ token_cache.expires_at # None
    /\ Minutes(clock) < token_cache.expires_at[1]

\* lines 74-75: the slot after a successful exchange
Cached(token, current_time) ==
    [ token |-> Some(token),
      expires_at |-> Some(Minutes(current_time) + TokenLifetime) ]

\* evaluate_message_importance line 292-296: whatever was raised, the
\* criteria are applied to 0.5; otherwise lines 269-290 on the reply
Completed(call, reply) ==
    [ call EXCEPT !.pc = "done",
        !.result = [ kind |-> "score", base |-> base_score_of(reply),
                     value |-> evaluate_message_importance(call.message,
                                   users[call.user_id], reply),
                     at |-> clock ] ]

\* get_access_token returns token to where it was called from: the caller,
\* line 263 of evaluate_message_importance, or line 113 of send_prompt
TokenReturned(call, token) ==
    CASE call.then = "return" ->
           [ call EXCEPT !.pc = "done",
               !.result = [ kind |-> "token", value |-> token, base |-> 0,
                            at |-> clock ] ]
      [] call.then = "send_prompt" ->
           [ call EXCEPT !.pc = "request", !.access_token = Some(token),
                         !.attempt = 0 ]
      [] call.then = "retry" ->
           [ call EXCEPT !.pc = "retry_request", !.access_token = Some(token) ]

\* the RuntimeError of get_access_token leaves evaluate_message_importance
TokenRaised_uncaught(call) ==
    [ call EXCEPT !.pc = "done",
        !.result = [ kind |-> "raise", value |-> 0, base |-> 0, at |-> clock ] ]

\* get_access_token raises RuntimeError (lines 71, 83): to the caller, or
\* through send_prompt, which catches requests exceptions only, into the
\* except of evaluate_message_importance
TokenRaised(call) ==
    IF call.then = "return"
        THEN [ call EXCEPT !.pc = "done",
                 !.result = [ kind |-> "raise", value |-> 0, base |-> 0,
                              at |-> clock ] ]
        ELSE Completed(call, Error)

\* lines 36-41 and 52-55: the cached token, or the first exchange attempt
Entered(call, force_refresh, then) ==
    LET frame == [ call EXCEPT !.force_refresh = force_refresh,
                               !.current_time = clock,
                               !.token_attempt = 0,
                               !.then = then,
                               !.cache_before = token_cache ] IN
    IF CacheHit(force_refresh)
        THEN TokenReturned(frame, token_cache.token[1])
        ELSE [ frame EXCEPT !.pc = "exchange" ]

\* a caller calls get_access_token(force_refresh)
get_access_token(c, force_refresh) ==
    /\ calls[c].pc \in {"idle", "done"}
    /\ calls' = [ calls EXCEPT
           ![c] = Entered(NewCall("get_access_token"), force_refresh, "return") ]
    /\ UNCHANGED << token_cache, issued, clock >>
    /\ UNCHANGED << pending_posts, users, bot_config, tasks, scoring >>

\* one attempt more than the loop makes
ExchangeAttemptsLeft_one_more(call) == call.token_attempt < max_retries

\* lines 55, 68, 80: a failed attempt is followed by another one
ExchangeAttemptsLeft(call) == call.token_attempt < max_retries - 1

\* lines 57-83: requests.post to the auth endpoint has come back
token_exchanged(c, outcome) ==
    /\ calls[c].pc = "exchange"
    /\ LET call == [ calls[c] EXCEPT !.exchanges = @ + 1 ] IN
       IF outcome.kind = "token"
           THEN /\ Len(issued) < MaxTokens
                /\ \A k \in 1..Len(issued) :
                       issued[k].expires_in = outcome.expires_in
                /\ LET token == Len(issued) + 1 IN
                   /\ issued' = Append(issued,
                          [ at |-> Minutes(clock),
                            expires_in |-> outcome.expires_in ])
                   /\ token_cache' = Cached(token, call.current_time)
                   /\ calls' = [ calls EXCEPT ![c] = TokenReturned(call, token) ]
           ELSE /\ calls' = [ calls EXCEPT ![c] =
                      IF ExchangeAttemptsLeft(call)
                          THEN [ call EXCEPT !.token_attempt = @ + 1 ]
                          ELSE TokenRaised(call) ]
                /\ UNCHANGED << token_cache, issued >>
    /\ UNCHANGED clock
    /\ UNCHANGED << pending_posts, users, bot_config, tasks, scoring >>

\* ---------------------------------------- evaluate_message_importance
\* line 263: the call starts with get_access_token()
evaluate_begins(c, message, user_id) ==
    /\ calls[c].pc \in {"idle", "done"}
    /\ calls' = [ calls EXCEPT ![c] =
           Entered([ NewCall("evaluate_message_importance") EXCEPT
                       !.message = message, !.user_id = user_id ],
                   FALSE, "send_prompt") ]
    /\ UNCHANGED << token_cache, issued, clock >>
    /\ UNCHANGED << pending_posts, users, bot_config, tasks, scoring >>

\* --------------------------------------------------------- send_prompt
\* the fixed delay in place of the backoff
backoff_fixed(attempt) == retry_delay

\* line 128: the backoff after a 429 on attempt k
backoff(attempt) == min(retry_delay * (2 ^ attempt), 60)

\* a loop that repeats the attempt without counting it
Continue_same_attempt(call, seconds) ==
    [ call EXCEPT !.waits = Append(@, seconds), !.pc = "request" ]

\* time.sleep(seconds); continue: the next attempt or, after the last one,
\* the end of the loop, where send_prompt returns None and
\* safe_json_parse(None) raises TypeError
Continue(call, seconds) ==
    LET slept == [ call EXCEPT !.waits = Append(@, seconds) ] IN
    IF call.attempt < max_retries - 1
        THEN [ slept EXCEPT !.attempt = @ + 1, !.pc = "request" ]
        ELSE Completed(slept, Error)

\* lines 138-144: except RequestException
RequestFailed(call) ==
    IF call.attempt < max_retries - 1
        THEN Continue(call, retry_delay)
        ELSE Completed(call, Error)

\* a 401 retried like a 5xx
HTTPError_retrying_unauthorized(call, status) ==
    IF status = 429
        THEN Continue(call, backoff(call.attempt))
        ELSE IF (status >= 500 \/ status = 401) /\ call.attempt < max_retries - 1
            THEN Continue(call, retry_delay)
            ELSE Completed(call, Error)

\* a 5xx treated as fatal
HTTPError_no_server_retry(call, status) ==
    IF status = 429
        THEN Continue(call, backoff(call.attempt))
        ELSE Completed(call, Error)

\* lines 125-136: except HTTPError, by status
HTTPError(call, status) ==
    IF status = 429
        THEN Continue(call, backoff(call.attempt))
        ELSE IF status >= 500 /\ call.attempt < max_retries - 1
            THEN Continue(call, retry_delay)
            ELSE Completed(call, Error)

\* lines 118-144: raise_for_status, the body, and the except clauses
Settled(call, response, json_error) ==
    IF response.kind = "RequestException"
        THEN RequestFailed(call)
        ELSE IF response.status >= 400
            THEN HTTPError(call, response.status)
            ELSE CASE response.envelope = "ok" ->
                        Completed(call, response.content)
                   [] response.envelope = "no_choices" ->
                        Completed(call, Error)
                   [] response.envelope = "not_json" ->
                        IF json_error = "RequestException"
                            THEN RequestFailed(call)
                            ELSE Completed(call, Error)

\* what a frame keeps of an answer of the scoring endpoint
Answered(call, response) ==
    [ call EXCEPT !.requests = @ + 1,
                  !.statuses = Append(@, response.status),
                  !.response = response ]

\* lines 109-116: the request of an attempt has come back; a 401 calls
\* get_access_token(force_refresh=True) before the retry
request_answered(c, response, json_error) ==
    /\ calls[c].pc = "request"
    /\ LET call == Answered(calls[c], response) IN
       calls' = [ calls EXCEPT ![c] =
           IF response.kind = "response" /\ response.status = 401
               THEN Entered([ call EXCEPT !.refreshes = @ + 1 ], TRUE, "retry")
               ELSE Settled(call, response, json_error) ]
    /\ UNCHANGED << token_cache, issued, clock >>
    /\ UNCHANGED << pending_posts, users, bot_config, tasks, scoring >>

\* lines 116-144: the retry with the new token has come back
retry_answered(c, response, json_error) ==
    /\ calls[c].pc = "retry_request"
    /\ calls' = [ calls EXCEPT ![c] =
           Settled(Answered(calls[c], response), response, json_error) ]
    /\ UNCHANGED << token_cache, issued, clock >>
    /\ UNCHANGED << pending_posts, users, bot_config, tasks, scoring >>

\* ------------------------------------------------------ specifications
InitClient ==
    /\ pending_posts = << >>
    /\ tasks = [ t \in Tasks |-> IdleTask ]
    /\ users = [ u \in UserIds |-> UserPreferences ]
    /\ bot_config = [ admin_ids |-> AdminIds,
                      publish_channel_id |-> None,
                      auto_publish_enabled |-> TRUE,
                      require_admin_approval |-> TRUE,
                      importance_criteria |-> ImportanceCriteria ]
    /\ clock = 0
    /\ scoring = NoScoring
    /\ token_cache = EmptyCache
    /\ issued = << >>
    /\ calls = [ c \in Threads |-> IdleCall ]

\* the clock counts hours and a call lasts minutes at most (timeouts of 10
\* and 30 seconds, sleeps of seconds): the hour turns between calls
hour_passes ==
    /\ \A c \in Threads : calls[c].pc \in {"idle", "done"}
    /\ time_passes

\* threads calling get_access_token, interleaved at the exchange
NextToken ==
    \/ \E c \in Threads, force_refresh \in BOOLEAN :
           get_access_token(c, force_refresh)
    \/ \E c \in Threads, outcome \in ExchangeOutcomes :
           token_exchanged(c, outcome)
    \/ hour_passes
SpecToken == InitClient /\ [][NextToken]_vars

\* one thread, one call after the other
NextClient ==
    \/ \E c \in MainThread, force_refresh \in BOOLEAN :
           get_access_token(c, force_refresh)
    \/ \E c \in MainThread, outcome \in ExchangeOutcomes :
           token_exchanged(c, outcome)
    \/ \E c \in MainThread, message \in ClientMessages, user_id \in UserIds :
           evaluate_begins(c, message, user_id)
    \/ \E c \in MainThread, response \in ScoringResponses,
          json_error \in JSONDecodeErrors :
           request_answered(c, response, json_error)
    \/ \E c \in MainThread, response \in ScoringResponses,
          json_error \in JSONDecodeErrors :
           retry_answered(c, response, json_error)
    \/ hour_passes
SpecClient == InitClient /\ [][NextClient]_vars

\* ===================================================================
\* Properties of the GigaChat client
\* ===================================================================
\* the evaluate_message_importance calls under way or returned
Evaluations ==
    { c \in Threads : calls[c].op = "evaluate_message_importance" }

\* C21: within one send_prompt call there is at most one forced token
\* refresh, whatever statuses the scoring endpoint answers with after the
\* first 401
C21_AtMostOneForcedRefresh ==
    \A c \in Evaluations : calls[c].refreshes <= 1

\* an evaluate_message_importance call has returned a score
ReturnedScore(c) ==
    /\ calls[c].pc = "done"
    /\ calls[c].result.kind = "score"

\* C22: a 401 answered by a 200 on the retry gives the clamped score of the
\* 200 body as base score; a 401 answered by a 401 on the retry ends the
\* requests of the call, which returns with the fallback base score 0.5
C22_RetryAfterUnauthorized ==
    \A c \in Evaluations :
        LET statuses == calls[c].statuses
            n == Len(statuses)
            response == calls[c].response IN
        \A i \in 1..(n - 1) :
            statuses[i] = 401 =>
                /\ statuses[i + 1] = 401 =>
                       /\ i + 1 = n
                       /\ ReturnedScore(c)
                       /\ calls[c].result.base = 50
                /\ ( /\ i + 1 = n
                     /\ statuses[n] = 200
                     /\ response.envelope = "ok"
                     /\ response.content.kind = "score" ) =>
                       /\ ReturnedScore(c)
                       /\ calls[c].result.base = Limit(response.content.score)

\* a call was answered 401, exchanged the token, and took the score 1.5 of
\* the retry's 200 body, clamped to 1.0, as base score
C22_RetriedWithNewToken ==
    \E c \in Evaluations :
        /\ calls[c].statuses = << 401, 200 >>
        /\ calls[c].response.content = [ kind |-> "score", score |-> 150 ]
        /\ calls[c].refreshes = 1
        /\ calls[c].access_token = Some(2)
        /\ ReturnedScore(c)
        /\ calls[c].result.base = 100

\* the reply of the model reached the parser and carried a score
ReplyScored(c) ==
    /\ calls[c].response.kind = "response"
    /\ calls[c].response.status = 200
    /\ calls[c].response.envelope = "ok"
    /\ calls[c].response.content.kind \in Convertible

\* C23: evaluate_message_importance never raises: whatever the token
\* exchange, the scoring request and the parsing came to, the call returns a
\* score, and when one of them failed the score is the criteria adjustment
\* of the base score 0.5
C23_NeverRaises ==
    \A c \in Evaluations :
        calls[c].pc = "done" =>
            /\ calls[c].result.kind = "score"
            /\ ( ~ ReplyScored(c) /\ calls[c].result.at = clock ) =>
                   calls[c].result.value =
                       apply_importance_criteria(50, calls[c].message,
                                                 users[calls[c].user_id])

\* the forced refresh after a 401 failed three times: the RuntimeError of
\* get_access_token went through send_prompt and the call returned 0.6, the
\* adjustment of 0.5 for a message less than an hour old
C23_RefreshFailedScoreReturned ==
    \E c \in Evaluations :
        /\ calls[c].statuses = << 401 >>
        /\ calls[c].refreshes = 1
        /\ calls[c].exchanges = 1 + max_retries
        /\ ReturnedScore(c)
        /\ calls[c].result.base = 50
        /\ calls[c].result.value = 60

\* the last answer of the scoring endpoint was one of the retried kinds
Retryable(response) ==
    \/ response.kind = "RequestException"
    \/ response.kind = "response" /\ response.status \in {429, 500}

\* the call ended on an answer the client does not retry, on a body that
\* does not parse, or with its attempts used up
EndedOnFailure(c) ==
    LET response == calls[c].response IN
    \/ response.kind = "response" /\ response.status = 403
    \/ /\ response.kind = "response"
       /\ response.status = 200
       /\ \/ response.envelope = "not_json"
          \/ response.envelope = "ok" /\ response.content.kind = "unparsable"
    \/ calls[c].attempt = max_retries - 1 /\ Retryable(response)
    \/ calls[c].token_attempt = max_retries - 1 /\ calls[c].requests = 0

\* C24: a call that ends on a non-retryable HTTP error, on a body that is
\* not JSON, or with its retries used up returns normally and its base
\* score is exactly 0.5
C24_FailuresFallBackToHalf ==
    \A c \in Evaluations :
        /\ ( calls[c].pc = "done" /\ EndedOnFailure(c) ) =>
               /\ calls[c].result.kind = "score"
               /\ calls[c].result.base = 50
        \* a 403 and an unparsable reply are never followed by a request
        /\ ( /\ calls[c].response.kind = "response"
             /\ \/ calls[c].response.status = 403
                \/ /\ calls[c].response.envelope = "ok"
                   /\ calls[c].response.content.kind = "unparsable" ) =>
               calls[c].pc = "done"

\* the first request was answered 403: no retry, base score 0.5
C24_ForbiddenFellBack ==
    \E c \in Evaluations :
        /\ calls[c].statuses = << 403 >>
        /\ calls[c].waits = << >>
        /\ ReturnedScore(c)
        /\ calls[c].result.base = 50

\* a get_access_token() call that found no token cached when it started and
\* has returned a token
ColdCallReturned(c) ==
    /\ calls[c].op = "get_access_token"
    /\ ~ calls[c].force_refresh
    /\ calls[c].cache_before = EmptyCache
    /\ calls[c].pc = "done"
    /\ calls[c].result.kind = "token"

\* C25: two get_access_token calls that both start before any token is
\* cached (so the second starts while the first is in progress) make one
\* exchange between them and return the same token
C25_OneExchangeForOverlappingCalls ==
    \A c, d \in Threads :
        ( c # d /\ ColdCallReturned(c) /\ ColdCallReturned(d) ) =>
            /\ calls[c].result.value = calls[d].result.value
            /\ calls[c].exchanges + calls[d].exchanges = 1

\* the get_access_token calls made by a caller directly
TokenCalls == { c \in Threads : calls[c].op = "get_access_token" }

\* when the call started a token was cached, its stored expiry lay ahead, and
\* force_refresh was false
FoundValidToken(c) ==
    /\ ~ calls[c].force_refresh
    /\ calls[c].cache_before.token # None
    /\ calls[c].cache_before.expires_at # None
    /\ Minutes(calls[c].current_time) < calls[c].cache_before.expires_at[1]

\* C26: get_access_token returns the cached token without an exchange
\* exactly when a token is cached, not yet expired, and force_refresh is
\* false; otherwise it exchanges, and on success stores and returns the
\* newly issued token
C26_CachedTokenServedIffValid ==
    \A c \in TokenCalls \cap MainThread :
        /\ FoundValidToken(c) =>
               /\ calls[c].pc = "done"
               /\ calls[c].exchanges = 0
               /\ calls[c].result.kind = "token"
               /\ calls[c].result.value = calls[c].cache_before.token[1]
               /\ token_cache = calls[c].cache_before
        /\ ~ FoundValidToken(c) =>
               /\ calls[c].pc = "done" => calls[c].exchanges >= 1
               /\ ( calls[c].pc = "done" /\ calls[c].result.kind = "token" ) =>
                      /\ calls[c].result.value = Len(issued)
                      /\ calls[c].cache_before.token # Some(Len(issued))
                      /\ token_cache.token = Some(calls[c].result.value)

\* an hour after the first token was cached a plain call found it expired,
\* exchanged once, and returned and cached the second token
C26_ExpiredTokenReplaced ==
    \E c \in TokenCalls \cap MainThread :
        /\ ~ calls[c].force_refresh
        /\ calls[c].cache_before = [ token |-> Some(1), expires_at |-> Some(30) ]
        /\ calls[c].current_time = 1
        /\ calls[c].exchanges = 1
        /\ calls[c].pc = "done"
        /\ calls[c].result.kind = "token"
        /\ calls[c].result.value = 2
        /\ token_cache = [ token |-> Some(2), expires_at |-> Some(90) ]

\* C27: a get_access_token call makes at most 3 exchange attempts; when all
\* 3 fail it raises to its caller and the cache slot is as it was before the
\* call
C27_ThreeAttemptsThenRaise ==
    /\ \A c \in Threads : calls[c].token_attempt <= 2
    /\ \A c \in TokenCalls \cap MainThread :
           /\ calls[c].exchanges <= 3
           /\ calls[c].pc = "exchange" => calls[c].exchanges < 3
           /\ ( calls[c].exchanges = 3 /\ calls[c].result.kind # "token" ) =>
                  /\ calls[c].pc = "done"
                  /\ calls[c].result.kind = "raise"
                  /\ token_cache = calls[c].cache_before
           /\ calls[c].result.kind = "raise" =>
                  /\ calls[c].exchanges = 3
                  /\ token_cache = calls[c].cache_before

\* a forced refresh failed three times and raised; the token cached before
\* the call is still in the slot
C27_RefreshRaisedCacheKept ==
    \E c \in TokenCalls \cap MainThread :
        /\ calls[c].force_refresh
        /\ calls[c].exchanges = 3
        /\ calls[c].pc = "done"
        /\ calls[c].result.kind = "raise"
        /\ calls[c].cache_before.token = Some(1)
        /\ token_cache = calls[c].cache_before

\* the moment the lifetime the auth endpoint declared for a token ends
ServerExpiry(token) == issued[token].at + issued[token].expires_in

\* C28: the expiry stored with the cached token is never later than the end
\* of the lifetime the server declared for it
C28_StoredExpiryWithinLifetime ==
    token_cache.token # None =>
        token_cache.expires_at[1] <= ServerExpiry(token_cache.token[1])

\* ------------------------------------------------- calls and fairness
\* evaluate_message_importance called again and again within the hour
NextCall ==
    \/ \E c \in MainThread, message \in ClientMessages, user_id \in UserIds :
           evaluate_begins(c, message, user_id)
    \/ \E c \in MainThread, outcome \in ExchangeOutcomes :
           token_exchanged(c, outcome)
    \/ \E c \in MainThread, response \in ScoringResponses,
          json_error \in JSONDecodeErrors :
           request_answered(c, response, json_error)
    \/ \E c \in MainThread, response \in ScoringResponses,
          json_error \in JSONDecodeErrors :
           retry_answered(c, response, json_error)

\* what a call in progress waits for: the answer to its requests.post
Answer(c) ==
    \/ \E outcome \in ExchangeOutcomes : token_exchanged(c, outcome)
    \/ \E response \in ScoringResponses, json_error \in JSONDecodeErrors :
           request_answered(c, response, json_error)
    \/ \E response \in ScoringResponses, json_error \in JSONDecodeErrors :
           retry_answered(c, response, json_error)

\* requests.post is called with a timeout (10 s for the exchange, 30 s for
\* the scoring request) and time.sleep returns: every request a call waits
\* for comes back, with a response or with a RequestException
SpecCallLive ==
    /\ InitClient
    /\ [][NextCall]_vars
    /\ \A c \in MainThread : WF_vars(Answer(c))

\* a call is in progress
Busy(c) == calls[c].pc \notin {"idle", "done"}

\* C29: every evaluate_message_importance call returns, whatever the
\* endpoints answer, after at most 6 scoring requests (3 attempts, each with
\* one retry) and at most 12 token exchanges (3 for the first token, 3 for
\* each of 3 forced refreshes)
C29_CallsBoundedAndReturn ==
    /\ [] ( \A c \in Evaluations :
                /\ calls[c].requests <= 2 * max_retries
                /\ calls[c].exchanges <= max_retries + max_retries * max_retries )
    /\ \A c \in MainThread : Busy(c) ~> ~ Busy(c)

\* a call that used all 12 exchanges: 401 on each of its 3 attempts, every
\* exchange succeeding at the third try only, the last refresh failing
C29_LongestCall ==
    \E c \in Evaluations :
        /\ calls[c].exchanges = 12
        /\ calls[c].refreshes = 3
        /\ calls[c].requests = 5
        /\ ReturnedScore(c)

\* the wait the claim gives for attempt k: 2 s doubled k times, at most 60 s
ClaimedWait(k) == IF 2 * (2 ^ k) < 60 THEN 2 * (2 ^ k) ELSE 60

\* every answer the call has received so far is a 429
Only429(c) ==
    /\ calls[c].statuses # << >>
    /\ \A i \in 1..Len(calls[c].statuses) : calls[c].statuses[i] = 429

\* C30: a call answered with 429 only makes 3 attempts, sleeps 2, 4 and 8
\* seconds after them, and returns with the fallback base score 0.5
C30_BackoffOnRateLimit ==
    \A c \in Evaluations :
        Only429(c) =>
            LET n == Len(calls[c].statuses) IN
            /\ n <= 3
            /\ calls[c].requests = n
            /\ calls[c].waits = [ k \in 1..n |-> ClaimedWait(k - 1) ]
            /\ \A k \in 1..n : calls[c].waits[k] <= 60
            /\ \A k \in 2..n : calls[c].waits[k] = 2 * calls[c].waits[k - 1]
            /\ n < 3 => calls[c].pc = "request" /\ calls[c].attempt = n
            /\ n = 3 => ReturnedScore(c) /\ calls[c].result.base = 50

\* three 429 answers, sleeps of 2, 4 and 8 seconds, base score 0.5
C30_RateLimitedThrice ==
    \E c \in Evaluations :
        /\ calls[c].statuses = << 429, 429, 429 >>
        /\ calls[c].waits = << 2, 4, 8 >>
        /\ ReturnedScore(c)
        /\ calls[c].result.base = 50

\* the answers 1..n of the call all carry the status 500
ServerErrors(c, n) ==
    /\ n >= 1
    /\ n <= Len(calls[c].statuses)
    /\ \A i \in 1..n : calls[c].statuses[i] = 500

\* C31: a call answered with 5xx only makes exactly 3 attempts, 2 seconds
\* apart, and then falls back; a 5xx followed by a 200 within the 3 attempts
\* gives the score of the 200 body
C31_FixedDelayOnServerError ==
    \A c \in Evaluations :
        LET n == Len(calls[c].statuses) IN
        /\ ServerErrors(c, n) =>
               /\ n <= 3
               /\ calls[c].requests = n
               /\ calls[c].waits = [ k \in 1..(IF n < 3 THEN n ELSE 2) |-> 2 ]
               /\ n < 3 => calls[c].pc = "request" /\ calls[c].attempt = n
               /\ n = 3 => ReturnedScore(c) /\ calls[c].result.base = 50
        /\ ( /\ ServerErrors(c, n - 1)
             /\ calls[c].statuses[n] = 200
             /\ ReplyScored(c) ) =>
               /\ n <= 3
               /\ ReturnedScore(c)
               /\ calls[c].result.base = Limit(calls[c].response.content.score)

\* two 500 answers, two sleeps of 2 seconds, and the third attempt's 200
\* body with the score 1.5, clamped to 1.0, taken as base score
C31_ThirdAttemptScored ==
    \E c \in Evaluations :
        /\ calls[c].statuses = << 500, 500, 200 >>
        /\ calls[c].waits = << 2, 2 >>
        /\ calls[c].response.content = [ kind |-> "score", score |-> 150 ]
        /\ ReturnedScore(c)
        /\ calls[c].result.base = 100

\* C32: a reply that parses to a JSON object with a numeric score s gives the
\* base score s clamped to [0.0, 1.0]; an object with no score field, or with
\* a score that is not a number (a string, a boolean, null), gives the
\* fallback base score 0.5
C32_BaseScoreFromReply ==
    \A c \in Evaluations :
        ( /\ ReturnedScore(c)
          /\ calls[c].response.kind = "response"
          /\ calls[c].response.status = 200
          /\ calls[c].response.envelope = "ok" ) =>
            LET content == calls[c].response.content IN
            /\ content.kind = "score" =>
                   calls[c].result.base = Limit(content.score)
            /\ content.kind \in {"no_score", "string", "bool"} =>
                   calls[c].result.base = 50

\* the values modified_score takes in apply_importance_criteria: after the
\* length step, then after the boost, reduce, recipient boost, recipient
\* exclude, source and recency steps
modified_score(base_score, message, user_preferences) ==
    LET criteria == bot_config.importance_criteria
        s1 == length_criteria(base_score, message, criteria)
        s2 == boost_keywords(s1, message, criteria)
        s3 == reduce_keywords(s2, message, criteria)
        s4 == user_keywords(s3, message, user_preferences)
        s5 == user_exclude_keywords(s4, message, user_preferences)
        s6 == source_adjustments(s5, message, criteria)
        s7 == time_sensitivity(s6, message, criteria)
    IN << s1, s2, s3, s4, s5, s6, s7 >>

\* every additive step that changed the running score left it in [0.0, 1.0]
StepsWithinUnitInterval(base_score) ==
    LET running == modified_score(base_score, scoring.message,
                                  users[scoring.user_id])
    IN \A i \in 2..7 : running[i] # running[i - 1] => running[i] \in 0..100

\* C33: inside apply_importance_criteria the running score lies in
\* [0.0, 1.0] after every additive step (boost, reduce, recipient boost,
\* recipient exclude, source, recency), whatever base score the function is
\* given
C33_RunningScoreWithinUnitInterval ==
    ( Scored /\ scoring.fn = "apply" ) =>
        /\ apply_importance_criteria(scoring.given, scoring.message,
                                     users[scoring.user_id])
             = Clamp01(modified_score(scoring.given, scoring.message,
                                      users[scoring.user_id])[7])
        /\ \A b \in BaseScores \cup OutOfRangeBaseScores :
               StepsWithinUnitInterval(b)

\* the call in slot t sent the text of post p to the publication channel
DeliveredBy(t, p) ==
    /\ tasks[t].op \in {"approve", "evaluate"}
    /\ tasks[t].post_id = Some(p)
    /\ tasks[t].publish = "ok"

\* C34: under any interleaving of approve_post, reject_post and
\* evaluate_and_maybe_auto_publish calls on the same post, repeated and
\* concurrent calls included, the post's text is delivered to the
\* publication channel at most once: no two calls have both delivered it
C34_DeliveredAtMostOnce ==
    \A t, u \in Tasks, p \in PostIds :
        ( t # u /\ DeliveredBy(t, p) ) => ~ DeliveredBy(u, p)

\* the reject_post call in slot t has returned true for post p
RejectReturnedTrue(t, p) ==
    /\ tasks[t].op = "reject"
    /\ tasks[t].post_id = Some(p)
    /\ tasks[t].pc = "done"
    /\ tasks[t].result = "True"

\* C35: after reject_post has returned true for a post, no later or
\* still-running operation delivers that post to the publication channel
C35_NoDeliveryAfterReject ==
    [][ \A t, u \in Tasks, p \in PostIds :
           ( t # u /\ RejectReturnedTrue(t, p) /\ ~ DeliveredBy(u, p) )
           => ~ DeliveredBy(u, p)'
      ]_vars

\* ===================================================================
\* Post ids
\* ===================================================================
\* str(uuid.uuid4())[:8]: eight hexadecimal digits drawn at random, whatever
\* the store holds
uuid4_prefix == PostIds

\* the calls of the dispatcher, one at a time, with the post ids as uuid4
\* draws them
NextIds ==
    \/ \E t \in Dispatcher, u \in UserIds, m \in Submissions, id \in uuid4_prefix :
          submit_post_for_review(t, u, m[1], m[2], id)
    \/ \E t \in Dispatcher, p \in PostIds, a \in AdminIds, c \in ApproveComments :
          approve_post(t, p, a, c)
    \/ \E t \in Dispatcher, o \in SendOutcomes : approve_published(t, o)
    \/ \E t \in Dispatcher, o \in SendOutcomes : approve_notified(t, o)
    \/ \E t \in Dispatcher, p \in PostIds, a \in AdminIds, c \in RejectComments :
          reject_post(t, p, a, c)
    \/ \E t \in Dispatcher, o \in SendOutcomes : reject_notified(t, o)
    \/ \E t \in Dispatcher, p \in PostIds, s \in Scores :
          evaluate_and_maybe_auto_publish(t, p, s)
    \/ \E t \in Dispatcher, o \in SendOutcomes : evaluate_published(t, o)
    \/ \E t \in Dispatcher, m \in Texts, s \in Scores, id \in uuid4_prefix :
          process_important_message(t, m, s, id)
    \/ \E t \in Dispatcher, a \in AdminIds, o \in SendOutcomes :
          process_notified(t, a, o)
    \/ \E t \in Dispatcher, o \in SendOutcomes : process_published(t, o)
SpecIds == Init /\ [][NextIds]_vars

\* the step is a call of the dispatcher that created a post:
\* submit_post_for_review returning its id, or process_important_message
\* queueing the message for review
CreatesPost(t) ==
    /\ t \in Dispatcher
    /\ Returned(t)
    /\ tasks'[t].op \in {"submit", "process"}
    /\ tasks'[t].post_id # None

\* C36: creating a post (submit_post_for_review, or process_important_message
\* in approval mode) never changes or replaces a post already in the store:
\* every stored post keeps its id, text, submitter and status, and the
\* number of stored posts grows by exactly one, for every id the generator
\* may produce
C36_CreationKeepsStoredPosts ==
    [][ \A t \in Tasks :
           CreatesPost(t) =>
               /\ \A p \in DOMAIN pending_posts :
                      /\ p \in DOMAIN pending_posts'
                      /\ pending_posts'[p] = pending_posts[p]
               /\ Cardinality(DOMAIN pending_posts') =
                      Cardinality(DOMAIN pending_posts) + 1
      ]_vars

\* C37: process_important_message called with a score strictly below the
\* global importance_threshold returns false, creates no post, notifies no
\* admin and sends nothing to the channel, whatever the values of
\* auto_publish_enabled and require_admin_approval
C37_BelowThresholdNoEffect ==
    [][ \A t \in Tasks :
           ( /\ CallOf(t, "process")
             /\ tasks'[t].score # None
             /\ tasks'[t].score[1] < importance_threshold )
           => ProcessDidNothing(t)
      ]_vars

\* with automatic publication on, no approval required and a channel
\* configured, a message scored 0.6 was processed and nothing was done
C37_UnimportantMessageDropped ==
    \E t \in Tasks :
       /\ tasks[t].op = "process" /\ tasks[t].pc = "done"
       /\ tasks[t].score = Some(60)
       /\ bot_config.auto_publish_enabled
       /\ ~ bot_config.require_admin_approval
       /\ ChannelConfigured
       /\ tasks[t].result = "False"
       /\ tasks[t].publish = "none" /\ tasks[t].notify = "none"
       /\ tasks[t].post_id = None

\* apply_importance_criteria of the observed message and recipient, now
adjust(base_score) ==
    apply_importance_criteria(base_score, scoring.message, users[scoring.user_id])

\* C38: apply_importance_criteria is monotone in the base score: for fixed
\* message, criteria, recipient preferences and message age, base scores
\* a <= b in [0, 1] give adjusted scores adjust(a) <= adjust(b)
C38_MonotoneInBaseScore ==
    ( Scored /\ scoring.fn = "apply" ) =>
        /\ LastCall.at = clock => LastCall.value = adjust(scoring.given)
        /\ \A a, b \in BaseScores : a <= b => adjust(a) <= adjust(b)

\* the call adjusted the base score 0.0 of a message with a reduce keyword
\* to 0.0, and the base score 0.5 would have come out higher
C38_HigherBaseScoredHigher ==
    /\ Scored /\ scoring.fn = "apply"
    /\ scoring.given = 0
    /\ LastCall.at = clock
    /\ any_keyword_in(bot_config.importance_criteria.keywords_reduce,
                      lower(scoring.message.text))
    /\ LastCall.value = 0
    /\ adjust(50) > 0

====
